---- MODULE Spec2Model ----
(***************************************************************************)
(* Battle engine of FO_game (src/FO_game/engine/battle.py): the step-based *)
(* engine (battle_state_new / battle_state_advance_until_pause /           *)
(* battle_state_player_basic_attack) and the non-interactive run_battle.   *)
(*                                                                         *)
(* Encodings.  Python None is encoded per type: NoId for a unit id, NoSeed *)
(* for a seed, NoWinner for a winner, NoTag for an event source/target,    *)
(* NoValue for an event value, <<>> for the awaiting dict (a present dict  *)
(* {"actor_id": i} is <<i>>).  A tag "name#id" is the tuple <<name, id>>,  *)
(* a tag "name" is <<name>>.  Float multipliers are scaled by 100.         *)
(* A unit object is referred to by a reference [side, idx] into the two    *)
(* unit lists, as Python refers to it by object identity.                  *)
(***************************************************************************)
EXTENDS Integers, Sequences, FiniteSets, TLC

VARIABLES
    state,      \* the battle-state dict of the step engine
    call,       \* history: the last call made on it (operation, arguments, state before, attacks resolved)
    ready_at,   \* history: per unit, the tick at which its ap last reached TURN_THRESHOLD
    battle,     \* the units as built and, once run_battle has run, its result
    twin,       \* the battle-state dict of a second run started from the same inputs
    db,         \* the database: the profile's coins, the heroes created, the locks held
    req         \* per summon request: its position and its in-memory PlayerProfile

vars == <<state, call, ready_at, battle, twin, db, req>>

-----------------------------------------------------------------------------
(* CONFIG *)

TURN_THRESHOLD == 100
SPEED_TO_AP_DIVISOR == 100
PHASE_RUNNING == "RUNNING"
PHASE_AWAIT_PLAYER == "AWAIT_PLAYER_ACTION"
PHASE_ENDED == "ENDED"

NoId == 0
NoSeed == -1
NoValue == -1
NoWinner == "None"
NoTag == <<>>
NoRef == [side |-> "none", idx |-> 0]

(* bounds of the model *)
NumSeeds == 1
MaxTickLimit == 3
MaxErrors == 1
RngRange == 4

Seeds == 1..NumSeeds
EntropyValues == 0..NumSeeds
TickLimits == {1, MaxTickLimit}
Rows == {"front", "mid", "back"}
Slots == 0..1
Sides == {"player", "enemy"}
LogTails == {-1, 0, 1, 40}

-----------------------------------------------------------------------------
(* generic helpers *)

Max(a, b) == IF a >= b THEN a ELSE b
Min(a, b) == IF a <= b THEN a ELSE b

\* Python int(n / d) for d > 0: truncation toward zero
IntTrunc(n, d) == IF n >= 0 THEN n \div d ELSE -((-n) \div d)

\* a local assignment "x = v" followed by the rest K of the block, which reads x
Bind(v, K(_)) == K(v)

RECURSIVE SeqSum(_)
SeqSum(s) == IF s = <<>> THEN 0 ELSE Head(s) + SeqSum(Tail(s))

SeqMap(F(_), s) == [i \in 1..Len(s) |-> F(s[i])]

\* the list comprehension [x for x in s if P(x)]
RECURSIVE SeqFilter(_, _)
SeqFilter(P(_), s) ==
    IF s = <<>> THEN <<>>
    ELSE IF P(Head(s)) THEN <<Head(s)>> \o SeqFilter(P, Tail(s))
    ELSE SeqFilter(P, Tail(s))

-----------------------------------------------------------------------------
(* random.Random(seed): a linear congruential stream stands for the        *)
(* generator; a None seed takes its seed from the system's entropy.        *)

RECURSIVE LcgState(_, _)
LcgState(seed, k) == IF k = 0 THEN (7 * seed + 3) % 16 ELSE (5 * LcgState(seed, k - 1) + 3) % 16

\* variant of Random: the generator is created without the seed
Random_Unseeded(seed, entropy) == [seed |-> entropy, pos |-> 0]

Random(seed, entropy) == [seed |-> IF seed = NoSeed THEN entropy ELSE seed, pos |-> 0]

\* rng.random(): the value r stands for the float r / RngRange
RngPeek(rng, k) == (LcgState(rng.seed, rng.pos + k) \div 2) % RngRange
RngSkip(rng, n) == [rng EXCEPT !.pos = @ + n]

-----------------------------------------------------------------------------
(* DATA TYPES *)

alive(u) == u.hp > 0

tag(u) == IF u.id = NoId THEN <<u.name>> ELSE <<u.name, u.id>>

BattleContext(rng, log) == [rng |-> rng, tick |-> 0, log |-> log]

event(tick, type_, source, target, value, meta) ==
    [tick |-> tick, type |-> type_, source |-> source, target |-> target,
     value |-> value, meta |-> meta]

\* ctx.event(...) on the context of the computation c
\* variant of Emit: the event is put at the head of the log
Emit_Prepend(c, e) == [c EXCEPT !.ctx.log = <<e>> \o @]

Emit(c, e) == [c EXCEPT !.ctx.log = Append(@, e)]

\* the unit object behind a reference, and assignment to it
Units(c, side) == IF side = "player" THEN c.player_units ELSE c.enemy_units
Deref(c, ref) == Units(c, ref.side)[ref.idx]
Assign(c, ref, u) ==
    IF ref.side = "player" THEN [c EXCEPT !.player_units[ref.idx] = u]
    ELSE [c EXCEPT !.enemy_units[ref.idx] = u]

\* player_units + enemy_units, as references
AllRefs(c) ==
    [i \in 1..Len(c.player_units) |-> [side |-> "player", idx |-> i]]
    \o [i \in 1..Len(c.enemy_units) |-> [side |-> "enemy", idx |-> i]]

SideRefs(c, side) == [i \in 1..Len(Units(c, side)) |-> [side |-> side, idx |-> i]]

-----------------------------------------------------------------------------
(* HELPERS (combat) *)

\* (phys_mult, magic_mult, target_bias), each scaled by 100
_formation_mult(unit) ==
    IF unit.row = "front" THEN <<115, 100, 120>> ELSE <<100, 105, 100>>

\* rng.choices(living, weights, k=1)[0]: bisect(cum_weights, random() * total, 0, n - 1)
Choices(ctx, living, weights) ==
    LET n == Len(living)
        cum == [i \in 1..n |-> SeqSum(SubSeq(weights, 1, i))]
        total == cum[n]
        r == RngPeek(ctx.rng, 0)
        k == Cardinality({j \in 1..(n - 1) : cum[j] * RngRange <= r * total})
    IN  living[k + 1]

\* variant of _choose_target: the candidates are not filtered on alive
_choose_target_AnyUnit(c, attacker, side) ==
    LET living == SideRefs(c, side)
        weights == [i \in 1..Len(living) |-> _formation_mult(Deref(c, living[i]))[3]]
    IN  IF living = <<>> THEN [target |-> NoRef, c |-> c]
        ELSE [target |-> Choices(c.ctx, living, weights),
              c |-> [c EXCEPT !.ctx.rng = RngSkip(@, 1)]]

\* returns the chosen reference (NoRef for None) and the context after the draw
_choose_target(c, attacker, side) ==
    LET IsLiving(r) == alive(Deref(c, r))
        living == SeqFilter(IsLiving, SideRefs(c, side))
        weights == [i \in 1..Len(living) |-> _formation_mult(Deref(c, living[i]))[3]]
    IN  IF living = <<>> THEN [target |-> NoRef, c |-> c]
        ELSE [target |-> Choices(c.ctx, living, weights),
              c |-> [c EXCEPT !.ctx.rng = RngSkip(@, 1)]]

\* the ability hooks of kits.py, dispatched on the ability's name
on_action(c, ab, ref) ==
    LET unit == Deref(c, ref) IN
    IF ab = "Back Row Channel" /\ unit.row = "back"
    THEN Emit(Assign(c, ref, [unit EXCEPT !.temp_mods.magic_mult = (@ * 105) \div 100]),
              event(c.ctx.tick, "passive", tag(unit), NoTag, NoValue,
                    [name |-> ab, effect |-> "+5% magic mult this action"]))
    ELSE c

on_battle_start(c, ab, ref) ==
    LET unit == Deref(c, ref) IN
    IF ab = "Undead Resilience"
    THEN LET m == (unit.max_hp * 110) \div 100
         IN  Emit(Assign(c, ref, [unit EXCEPT !.max_hp = m, !.hp = m]),
                  event(c.ctx.tick, "passive", tag(unit), NoTag, NoValue,
                        [name |-> ab, effect |-> "+10% max HP"]))
    ELSE c

RECURSIVE ForAbilities(_, _, _, _)
ForAbilities(Hook(_, _, _), c, abilities, ref) ==
    IF abilities = <<>> THEN c
    ELSE ForAbilities(Hook, Hook(c, Head(abilities), ref), Tail(abilities), ref)

\* variant of _deal_damage: the target's hp is not floored at 0
_deal_damage_NoFloor(c, a, t) ==
    Bind(Assign(c, a, [Deref(c, a) EXCEPT !.temp_mods = [phys_mult |-> 100, magic_mult |-> 100]]),
    LAMBDA c1 :
    Bind(ForAbilities(on_action, c1, Deref(c1, a).abilities, a),
    LAMBDA c2 :
    LET attacker == Deref(c2, a)
        before == Deref(c2, t)
        base == Max(IntTrunc(2 * attacker.stats.atk - before.stats.def, 2), 1)
        dmg == (base * _formation_mult(attacker)[1] * attacker.temp_mods.phys_mult) \div 10000
    IN
    Bind(Assign(c2, t, [before EXCEPT !.hp = @ - dmg]),
    LAMBDA c3 :
    Bind(Emit(c3, event(c3.ctx.tick, "attack", tag(attacker), tag(Deref(c3, t)), dmg,
                        [row |-> attacker.row, target_row |-> Deref(c3, t).row])),
    LAMBDA c4 :
    Bind(IF Deref(c4, t).hp <= 0
         THEN Emit(c4, event(c4.ctx.tick, "death", tag(Deref(c4, t)), NoTag, NoValue, <<>>))
         ELSE c4,
    LAMBDA c5 :
    \* history: who attacked whom, the attacker when chosen (acting) and when it struck,
    \* the target before and after, and all units on entry and on return
    [c5 EXCEPT !.trace = Append(@,
        [tick |-> c.ctx.tick, source |-> a, target |-> t, acting |-> c.acting,
         ready_tick |-> c.ready_at[a.side][a.idx],
         attacker |-> attacker, attacker_after |-> Deref(c5, a),
         before |-> before, after |-> Deref(c5, t), dmg |-> dmg,
         units |-> [player |-> c.player_units, enemy |-> c.enemy_units],
         units_after |-> [player |-> c5.player_units, enemy |-> c5.enemy_units]])])))))

\* variant of _deal_damage: the base damage has no minimum of 1
_deal_damage_NoMin(c, a, t) ==
    Bind(Assign(c, a, [Deref(c, a) EXCEPT !.temp_mods = [phys_mult |-> 100, magic_mult |-> 100]]),
    LAMBDA c1 :
    Bind(ForAbilities(on_action, c1, Deref(c1, a).abilities, a),
    LAMBDA c2 :
    LET attacker == Deref(c2, a)
        before == Deref(c2, t)
        base == IntTrunc(2 * attacker.stats.atk - before.stats.def, 2)
        dmg == (base * _formation_mult(attacker)[1] * attacker.temp_mods.phys_mult) \div 10000
    IN
    Bind(Assign(c2, t, [before EXCEPT !.hp = Max(@ - dmg, 0)]),
    LAMBDA c3 :
    Bind(Emit(c3, event(c3.ctx.tick, "attack", tag(attacker), tag(Deref(c3, t)), dmg,
                        [row |-> attacker.row, target_row |-> Deref(c3, t).row])),
    LAMBDA c4 :
    Bind(IF Deref(c4, t).hp <= 0
         THEN Emit(c4, event(c4.ctx.tick, "death", tag(Deref(c4, t)), NoTag, NoValue, <<>>))
         ELSE c4,
    LAMBDA c5 :
    \* history: who attacked whom, the attacker when chosen (acting) and when it struck,
    \* the target before and after, and all units on entry and on return
    [c5 EXCEPT !.trace = Append(@,
        [tick |-> c.ctx.tick, source |-> a, target |-> t, acting |-> c.acting,
         ready_tick |-> c.ready_at[a.side][a.idx],
         attacker |-> attacker, attacker_after |-> Deref(c5, a),
         before |-> before, after |-> Deref(c5, t), dmg |-> dmg,
         units |-> [player |-> c.player_units, enemy |-> c.enemy_units],
         units_after |-> [player |-> c5.player_units, enemy |-> c5.enemy_units]])])))))

\* variant of _deal_damage: the death event follows every attack
_deal_damage_AlwaysDeath(c, a, t) ==
    Bind(Assign(c, a, [Deref(c, a) EXCEPT !.temp_mods = [phys_mult |-> 100, magic_mult |-> 100]]),
    LAMBDA c1 :
    Bind(ForAbilities(on_action, c1, Deref(c1, a).abilities, a),
    LAMBDA c2 :
    LET attacker == Deref(c2, a)
        before == Deref(c2, t)
        base == Max(IntTrunc(2 * attacker.stats.atk - before.stats.def, 2), 1)
        dmg == (base * _formation_mult(attacker)[1] * attacker.temp_mods.phys_mult) \div 10000
    IN
    Bind(Assign(c2, t, [before EXCEPT !.hp = Max(@ - dmg, 0)]),
    LAMBDA c3 :
    Bind(Emit(c3, event(c3.ctx.tick, "attack", tag(attacker), tag(Deref(c3, t)), dmg,
                        [row |-> attacker.row, target_row |-> Deref(c3, t).row])),
    LAMBDA c4 :
    Bind(IF TRUE
         THEN Emit(c4, event(c4.ctx.tick, "death", tag(Deref(c4, t)), NoTag, NoValue, <<>>))
         ELSE c4,
    LAMBDA c5 :
    \* history: who attacked whom, the attacker when chosen (acting) and when it struck,
    \* the target before and after, and all units on entry and on return
    [c5 EXCEPT !.trace = Append(@,
        [tick |-> c.ctx.tick, source |-> a, target |-> t, acting |-> c.acting,
         ready_tick |-> c.ready_at[a.side][a.idx],
         attacker |-> attacker, attacker_after |-> Deref(c5, a),
         before |-> before, after |-> Deref(c5, t), dmg |-> dmg,
         units |-> [player |-> c.player_units, enemy |-> c.enemy_units],
         units_after |-> [player |-> c5.player_units, enemy |-> c5.enemy_units]])])))))

\* variant of _deal_damage: the damage is added to the target's hp
_deal_damage_Heals(c, a, t) ==
    Bind(Assign(c, a, [Deref(c, a) EXCEPT !.temp_mods = [phys_mult |-> 100, magic_mult |-> 100]]),
    LAMBDA c1 :
    Bind(ForAbilities(on_action, c1, Deref(c1, a).abilities, a),
    LAMBDA c2 :
    LET attacker == Deref(c2, a)
        before == Deref(c2, t)
        base == Max(IntTrunc(2 * attacker.stats.atk - before.stats.def, 2), 1)
        dmg == (base * _formation_mult(attacker)[1] * attacker.temp_mods.phys_mult) \div 10000
    IN
    Bind(Assign(c2, t, [before EXCEPT !.hp = Max(@ + dmg, 0)]),
    LAMBDA c3 :
    Bind(Emit(c3, event(c3.ctx.tick, "attack", tag(attacker), tag(Deref(c3, t)), dmg,
                        [row |-> attacker.row, target_row |-> Deref(c3, t).row])),
    LAMBDA c4 :
    Bind(IF Deref(c4, t).hp <= 0
         THEN Emit(c4, event(c4.ctx.tick, "death", tag(Deref(c4, t)), NoTag, NoValue, <<>>))
         ELSE c4,
    LAMBDA c5 :
    \* history: who attacked whom, the attacker when chosen (acting) and when it struck,
    \* the target before and after, and all units on entry and on return
    [c5 EXCEPT !.trace = Append(@,
        [tick |-> c.ctx.tick, source |-> a, target |-> t, acting |-> c.acting,
         ready_tick |-> c.ready_at[a.side][a.idx],
         attacker |-> attacker, attacker_after |-> Deref(c5, a),
         before |-> before, after |-> Deref(c5, t), dmg |-> dmg,
         units |-> [player |-> c.player_units, enemy |-> c.enemy_units],
         units_after |-> [player |-> c5.player_units, enemy |-> c5.enemy_units]])])))))

_deal_damage(c, a, t) ==
    Bind(Assign(c, a, [Deref(c, a) EXCEPT !.temp_mods = [phys_mult |-> 100, magic_mult |-> 100]]),
    LAMBDA c1 :
    Bind(ForAbilities(on_action, c1, Deref(c1, a).abilities, a),
    LAMBDA c2 :
    LET attacker == Deref(c2, a)
        before == Deref(c2, t)
        base == Max(IntTrunc(2 * attacker.stats.atk - before.stats.def, 2), 1)
        dmg == (base * _formation_mult(attacker)[1] * attacker.temp_mods.phys_mult) \div 10000
    IN
    Bind(Assign(c2, t, [before EXCEPT !.hp = Max(@ - dmg, 0)]),
    LAMBDA c3 :
    Bind(Emit(c3, event(c3.ctx.tick, "attack", tag(attacker), tag(Deref(c3, t)), dmg,
                        [row |-> attacker.row, target_row |-> Deref(c3, t).row])),
    LAMBDA c4 :
    Bind(IF Deref(c4, t).hp <= 0
         THEN Emit(c4, event(c4.ctx.tick, "death", tag(Deref(c4, t)), NoTag, NoValue, <<>>))
         ELSE c4,
    LAMBDA c5 :
    \* history: who attacked whom, the attacker when chosen (acting) and when it struck,
    \* the target before and after, and all units on entry and on return
    [c5 EXCEPT !.trace = Append(@,
        [tick |-> c.ctx.tick, source |-> a, target |-> t, acting |-> c.acting,
         ready_tick |-> c.ready_at[a.side][a.idx],
         attacker |-> attacker, attacker_after |-> Deref(c5, a),
         before |-> before, after |-> Deref(c5, t), dmg |-> dmg,
         units |-> [player |-> c.player_units, enemy |-> c.enemy_units],
         units_after |-> [player |-> c5.player_units, enemy |-> c5.enemy_units]])])))))

\* variant of _ap_gain_per_tick: no minimum gain of 1
_ap_gain_per_tick_NoFloor(stats) ==
    IntTrunc(stats.speed, SPEED_TO_AP_DIVISOR)

_ap_gain_per_tick(stats) ==
    Max(1, IntTrunc(stats.speed, SPEED_TO_AP_DIVISOR))

-----------------------------------------------------------------------------
(* AUTO-RUN BATTLE (non-step) *)

\* d.get(k, 0) and d[k] = v on a dict kept as a function
DictGet(d, k) == IF k \in DOMAIN d THEN d[k] ELSE 0
DictPut(d, k, v) == [x \in DOMAIN d \cup {k} |-> IF x = k THEN v ELSE d[x]]

\* "for u in player_units + enemy_units: for ab in u.abilities: ab.on_battle_start(ctx, u)"
RECURSIVE StartHooks(_, _)
StartHooks(c, refs) ==
    IF refs = <<>> THEN c
    ELSE StartHooks(ForAbilities(on_battle_start, c, Deref(c, Head(refs)).abilities, Head(refs)),
                    Tail(refs))

\* history: the units as they stood when actor was chosen
Picked(c, actor) ==
    [tick |-> c.ctx.tick, actor |-> actor, player_units |-> c.player_units,
     enemy_units |-> c.enemy_units]

\* variant of FillAP: the dead accumulate ap as well
RECURSIVE FillAP_DeadToo(_, _)
FillAP_DeadToo(c, refs) ==
    IF refs = <<>> THEN c
    ELSE LET r == Head(refs)
             u == Deref(c, r)
             ap == Min(TURN_THRESHOLD, u.ap + _ap_gain_per_tick(u.stats))
             c1 == Assign(c, r, [u EXCEPT !.ap = ap])
             c2 == IF alive(u) /\ u.ap < TURN_THRESHOLD /\ ap >= TURN_THRESHOLD
                   THEN [c1 EXCEPT !.ready_at[r.side][r.idx] = c.ctx.tick]
                   ELSE c1
         IN  FillAP_DeadToo(c2, Tail(refs))

\* one pass of AP accumulation over player_units + enemy_units (lines 251-253),
\* with the tick at which a unit became ready noted
RECURSIVE FillAP(_, _)
FillAP(c, refs) ==
    IF refs = <<>> THEN c
    ELSE LET r == Head(refs)
             u == Deref(c, r)
             ap == Min(TURN_THRESHOLD, u.ap + _ap_gain_per_tick(u.stats))
             c1 == IF alive(u) THEN Assign(c, r, [u EXCEPT !.ap = ap]) ELSE c
             c2 == IF alive(u) /\ u.ap < TURN_THRESHOLD /\ ap >= TURN_THRESHOLD
                   THEN [c1 EXCEPT !.ready_at[r.side][r.idx] = c.ctx.tick]
                   ELSE c1
         IN  FillAP(c2, Tail(refs))

\* the AP accumulation of one tick; history: the units before and after it
FillTick(c) ==
    Bind(FillAP(c, AllRefs(c)),
    LAMBDA c2 :
    [c2 EXCEPT !.fills = Append(@,
        [tick |-> c.ctx.tick,
         before |-> [player_units |-> c.player_units, enemy_units |-> c.enemy_units],
         after |-> [player_units |-> c2.player_units, enemy_units |-> c2.enemy_units]])])

\* the first element of ready sorted by (speed, rng.random()) descending; the sort is
\* stable, so among equal keys the earliest of the list comes first
NextReady(c) ==
    LET IsReady(r) == alive(Deref(c, r)) /\ Deref(c, r).ap >= TURN_THRESHOLD
        ready == SeqFilter(IsReady, AllRefs(c))
        speed(i) == Deref(c, ready[i]).stats.speed
        rnd(i) == RngPeek(c.ctx.rng, i - 1)
        Before(i, j) == \/ speed(i) > speed(j)
                        \/ speed(i) = speed(j) /\ rnd(i) > rnd(j)
                        \/ speed(i) = speed(j) /\ rnd(i) = rnd(j) /\ i < j
        first == CHOOSE i \in 1..Len(ready) : \A j \in 1..Len(ready) : j # i => Before(i, j)
    IN  IF ready = <<>> THEN [actor |-> NoRef, c |-> c]
        ELSE [actor |-> ready[first],
              c |-> [c EXCEPT !.ctx.rng = RngSkip(@, Len(ready)),
                              !.picks = Append(@, Picked(c, ready[first]))]]

\* the "while True" loop of run_battle (lines 256-281)
RECURSIVE RunActions(_, _)
RunActions(c, fuel) ==
    IF fuel = 0 THEN [c EXCEPT !.diverged = TRUE]
    ELSE IF ~(\E i \in 1..Len(c.player_units) : alive(c.player_units[i]))
    THEN [c EXCEPT !.winner = "enemy"]
    ELSE IF ~(\E i \in 1..Len(c.enemy_units) : alive(c.enemy_units[i]))
    THEN [c EXCEPT !.winner = "player"]
    ELSE
    Bind(NextReady(c),
    LAMBDA p :
    IF p.actor = NoRef THEN p.c
    ELSE
    LET actor == Deref(p.c, p.actor)
        c1 == Assign([p.c EXCEPT !.acting = actor,
                                 !.actions_taken = DictPut(@, tag(actor), DictGet(@, tag(actor)) + 1)],
                     p.actor, [actor EXCEPT !.ap = 0])
    IN
    Bind(_choose_target(c1, actor, IF actor.side = "player" THEN "enemy" ELSE "player"),
    LAMBDA t :
    IF t.target = NoRef THEN RunActions(t.c, fuel - 1)
    ELSE
    Bind(_deal_damage(t.c, p.actor, t.target),
    LAMBDA c2 :
    RunActions([c2 EXCEPT !.damage_done =
                    DictPut(@, tag(actor), DictGet(@, tag(actor)) + c2.trace[Len(c2.trace)].dmg)],
               fuel - 1))))

\* "for tick in range(tick, tick_limit + 1)" (lines 241-284), left as soon as a winner
\* is set; the range is split in halves to keep the evaluation shallow
RECURSIVE RunTicks(_, _, _)
RunTicks(c, tick, tick_limit) ==
    IF tick > tick_limit \/ c.diverged \/ c.winner # NoWinner THEN c
    ELSE IF tick = tick_limit
    THEN
    Bind([c EXCEPT !.ctx.tick = tick],
    LAMBDA c1 :
    Bind(FillTick(c1),
    LAMBDA c2 :
    RunActions(c2, Len(AllRefs(c2)) + 2)))
    ELSE RunTicks(RunTicks(c, tick, (tick + tick_limit) \div 2),
                  (tick + tick_limit) \div 2 + 1, tick_limit)

\* the first unit of side_units whose damage_done is maximal
RECURSIVE BestOf(_, _, _, _)
BestOf(units, damage_done, best, best_dmg) ==
    IF units = <<>> THEN [best |-> best, best_dmg |-> best_dmg]
    ELSE LET u == Head(units)
             d == DictGet(damage_done, tag(u))
         IN  IF d > best_dmg THEN BestOf(Tail(units), damage_done, <<u>>, d)
             ELSE BestOf(Tail(units), damage_done, best, best_dmg)

\* variant of XpMap: only the units that took an action are rewarded
RECURSIVE XpMap_OnlyActors(_, _, _, _)
XpMap_OnlyActors(units, actions_taken, base_xp, xp_map) ==
    IF units = <<>> THEN xp_map
    ELSE LET u == Head(units)
             bonus == 10 * DictGet(actions_taken, tag(u))
         IN  XpMap_OnlyActors(Tail(units), actions_taken, base_xp,
                   IF bonus > 0 THEN DictPut(xp_map, u.id, base_xp + bonus) ELSE xp_map)

\* "for u in player_units: if u.id is not None: xp_map[u.id] = base_xp + bonus"
RECURSIVE XpMap(_, _, _, _)
XpMap(units, actions_taken, base_xp, xp_map) ==
    IF units = <<>> THEN xp_map
    ELSE LET u == Head(units)
             bonus == 10 * DictGet(actions_taken, tag(u))
         IN  XpMap(Tail(units), actions_taken, base_xp,
                   IF u.id # NoId THEN DictPut(xp_map, u.id, base_xp + bonus) ELSE xp_map)

run_battle(player_units, enemy_units, seed, tick_limit, entropy, h) ==
    Bind([ctx |-> BattleContext(Random(seed, entropy),
                                <<event(0, "start", NoTag, NoTag, NoValue, [tick_limit |-> tick_limit])>>),
          player_units |-> player_units, enemy_units |-> enemy_units,
          damage_done |-> <<>>, actions_taken |-> <<>>, winner |-> NoWinner,
          trace |-> h.trace, acting |-> h.acting, ready_at |-> h.ready_at, diverged |-> h.diverged,
     picks |-> h.picks, fills |-> h.fills],
    LAMBDA c0 :
    Bind(StartHooks(c0, AllRefs(c0)),
    LAMBDA c1 :
    Bind(RunTicks(c1, 1, tick_limit),
    LAMBDA c2 :
    Bind(IF c2.winner = NoWinner THEN "draw" ELSE c2.winner,
    LAMBDA winner :
    Bind(Emit(c2, event(c2.ctx.tick, "end", NoTag, NoTag, NoValue, [winner |-> winner])),
    LAMBDA c3 :
    Bind(BestOf(IF winner = "player" THEN c3.player_units ELSE c3.enemy_units,
                c3.damage_done, <<>>, -1),
    LAMBDA b :
    LET mvp == IF winner \in {"player", "enemy"} /\ b.best # <<>>
               THEN <<[side |-> b.best[1].side, unit_id |-> b.best[1].id, name |-> b.best[1].name,
                       damage |-> b.best_dmg]>>
               ELSE <<>>
        base_xp == IF winner = "player" THEN 120 ELSE IF winner = "draw" THEN 60 ELSE 30
        Final(u) == [id |-> u.id, name |-> u.name, hp |-> u.hp, max_hp |-> u.max_hp, row |-> u.row]
    IN  [winner |-> winner, log |-> c3.ctx.log, mvp |-> mvp,
         xp |-> XpMap(c3.player_units, c3.actions_taken, base_xp, <<>>),
         final |-> [player |-> SeqMap(Final, c3.player_units),
                    enemy |-> SeqMap(Final, [i \in 1..Len(c3.enemy_units) |->
                                                [c3.enemy_units[i] EXCEPT !.id = NoId]])],
         player_units |-> c3.player_units, enemy_units |-> c3.enemy_units,
         damage_done |-> c3.damage_done, actions_taken |-> c3.actions_taken,
         trace |-> c3.trace, ready_at |-> c3.ready_at, diverged |-> c3.diverged,
         picks |-> c3.picks, fills |-> c3.fills]))))))

-----------------------------------------------------------------------------
(* STEP-BASED BATTLE (session state) *)

\* variant of _unit_to_dict: max_hp is persisted as the current hp
_unit_to_dict_MaxHpIsHp(u) ==
    [id |-> u.id, side |-> u.side, name |-> u.name, level |-> u.level, row |-> u.row,
     slot |-> u.slot, stats |-> u.stats, hp |-> u.hp, max_hp |-> u.hp, ap |-> u.ap]

_unit_to_dict(u) ==
    [id |-> u.id, side |-> u.side, name |-> u.name, level |-> u.level, row |-> u.row,
     slot |-> u.slot, stats |-> u.stats, hp |-> u.hp, max_hp |-> u.max_hp, ap |-> u.ap]

\* variant of _unit_from_dict: ap is not read back
_unit_from_dict_NoAp(d) ==
    [id |-> d.id, side |-> d.side, name |-> d.name, level |-> d.level, row |-> d.row,
     slot |-> d.slot, stats |-> d.stats, hp |-> d.hp, max_hp |-> d.max_hp, ap |-> 0,
     abilities |-> <<>>, temp_mods |-> <<>>]

_unit_from_dict(d) ==
    [id |-> d.id, side |-> d.side, name |-> d.name, level |-> d.level, row |-> d.row,
     slot |-> d.slot, stats |-> d.stats, hp |-> d.hp, max_hp |-> d.max_hp, ap |-> d.ap,
     abilities |-> <<>>, temp_mods |-> <<>>]

\* str comparison of the unit names in use
NameOrder == <<"Duelist", "Dummy", "Ghoul", "Knight", "Rogue", "Slug">>
NameRank(name) == CHOOSE i \in 1..Len(NameOrder) : NameOrder[i] = name

\* the sort key (u.slot, u.id or 0, u.name), compared as tuples
FmtKeyLess(u, v) ==
    \/ u.slot < v.slot
    \/ u.slot = v.slot /\ u.id < v.id
    \/ u.slot = v.slot /\ u.id = v.id /\ NameRank(u.name) < NameRank(v.name)

RECURSIVE SortedInsert(_, _)
SortedInsert(s, u) ==
    IF s = <<>> THEN <<u>>
    ELSE IF FmtKeyLess(u, Head(s)) THEN <<u>> \o s
    ELSE <<Head(s)>> \o SortedInsert(Tail(s), u)

\* list.sort by that key: stable
RECURSIVE FmtSort(_)
FmtSort(s) ==
    IF s = <<>> THEN <<>>
    ELSE SortedInsert(FmtSort(SubSeq(s, 1, Len(s) - 1)), s[Len(s)])

_fmt_units(units) ==
    [front |-> SeqMap(_unit_to_dict, FmtSort(SeqFilter(LAMBDA u : u.row = "front", units))),
     back |-> SeqMap(_unit_to_dict, FmtSort(SeqFilter(LAMBDA u : u.row = "back", units)))]

\* Python log[-n:]
SliceTail(log, n) ==
    IF n = 0 THEN log
    ELSE IF n > 0 THEN SubSeq(log, Max(Len(log) - n, 0) + 1, Len(log))
    ELSE SubSeq(log, Min(-n, Len(log)) + 1, Len(log))

\* variant of battle_state_snapshot: the state keeps only the tail of the log shown
battle_state_snapshot_TrimsLog(st, log_tail) ==
    [state |-> [st EXCEPT !.log = SliceTail(st.log, log_tail)],
     snap |-> [tick |-> st.tick, tick_limit |-> st.tick_limit, phase |-> st.phase,
               winner |-> st.winner, awaiting |-> st.awaiting,
               player |-> _fmt_units(SeqMap(_unit_from_dict, st.player_units)),
               enemy |-> _fmt_units(SeqMap(_unit_from_dict, st.enemy_units)),
               log |-> IF st.log # <<>> THEN SliceTail(st.log, log_tail) ELSE <<>>,
               ended |-> st.phase = PHASE_ENDED]]

\* the state dict as the call leaves it, and the dict returned
battle_state_snapshot(st, log_tail) ==
    [state |-> st,
     snap |-> [tick |-> st.tick, tick_limit |-> st.tick_limit, phase |-> st.phase,
               winner |-> st.winner, awaiting |-> st.awaiting,
               player |-> _fmt_units(SeqMap(_unit_from_dict, st.player_units)),
               enemy |-> _fmt_units(SeqMap(_unit_from_dict, st.enemy_units)),
               log |-> IF st.log # <<>> THEN SliceTail(st.log, log_tail) ELSE <<>>,
               ended |-> st.phase = PHASE_ENDED]]

\* variant of _check_winner: the winners are exchanged
_check_winner_Swapped(player_units, enemy_units) ==
    IF ~(\E i \in 1..Len(player_units) : alive(player_units[i])) THEN "player"
    ELSE IF ~(\E i \in 1..Len(enemy_units) : alive(enemy_units[i])) THEN "enemy"
    ELSE NoWinner

_check_winner(player_units, enemy_units) ==
    IF ~(\E i \in 1..Len(player_units) : alive(player_units[i])) THEN "enemy"
    ELSE IF ~(\E i \in 1..Len(enemy_units) : alive(enemy_units[i])) THEN "player"
    ELSE NoWinner

\* variant of _pick_next_ready_any: the slowest ready unit comes first
_pick_next_ready_any_Slowest(c) ==
    LET IsReady(r) == alive(Deref(c, r)) /\ Deref(c, r).ap >= TURN_THRESHOLD
        ready == SeqFilter(IsReady, AllRefs(c))
        speed(i) == Deref(c, ready[i]).stats.speed
        rnd(i) == RngPeek(c.ctx.rng, i - 1)
        Before(i, j) == \/ speed(i) < speed(j)
                        \/ speed(i) = speed(j) /\ rnd(i) > rnd(j)
                        \/ speed(i) = speed(j) /\ rnd(i) = rnd(j) /\ i < j
        first == CHOOSE i \in 1..Len(ready) : \A j \in 1..Len(ready) : j # i => Before(i, j)
    IN  IF ready = <<>> THEN [actor |-> NoRef, c |-> c]
        ELSE [actor |-> ready[first],
              c |-> [c EXCEPT !.ctx.rng = RngSkip(@, Len(ready)),
                              !.picks = Append(@, Picked(c, ready[first]))]]

\* the first element of ready sorted by (speed, rng.random()) descending; the sort is
\* stable, so among equal keys the earliest of the list comes first
_pick_next_ready_any(c) ==
    LET IsReady(r) == alive(Deref(c, r)) /\ Deref(c, r).ap >= TURN_THRESHOLD
        ready == SeqFilter(IsReady, AllRefs(c))
        speed(i) == Deref(c, ready[i]).stats.speed
        rnd(i) == RngPeek(c.ctx.rng, i - 1)
        Before(i, j) == \/ speed(i) > speed(j)
                        \/ speed(i) = speed(j) /\ rnd(i) > rnd(j)
                        \/ speed(i) = speed(j) /\ rnd(i) = rnd(j) /\ i < j
        first == CHOOSE i \in 1..Len(ready) : \A j \in 1..Len(ready) : j # i => Before(i, j)
    IN  IF ready = <<>> THEN [actor |-> NoRef, c |-> c]
        ELSE [actor |-> ready[first],
              c |-> [c EXCEPT !.ctx.rng = RngSkip(@, Len(ready)),
                              !.picks = Append(@, Picked(c, ready[first]))]]


\* the "while True" loop of battle_state_advance_until_pause (lines 503-527);
\* fuel counts the iterations left before the computation is declared divergent
RECURSIVE ActionLoop(_, _)
ActionLoop(c, fuel) ==
    IF fuel = 0 THEN [c EXCEPT !.diverged = TRUE]
    ELSE
    Bind(_check_winner(c.player_units, c.enemy_units),
    LAMBDA winner :
    IF winner # NoWinner
    THEN Emit([c EXCEPT !.state.winner = winner, !.state.phase = PHASE_ENDED],
              event(c.ctx.tick, "end", NoTag, NoTag, NoValue, [winner |-> winner]))
    ELSE
    Bind(_pick_next_ready_any(c),
    LAMBDA p :
    IF p.actor = NoRef THEN p.c
    ELSE
    Bind(Deref(p.c, p.actor),
    LAMBDA actor :
    IF actor.side = "player"
    THEN Emit([p.c EXCEPT !.state.phase = PHASE_AWAIT_PLAYER, !.state.awaiting = <<actor.id>>],
              event(c.ctx.tick, "pause", tag(actor), NoTag, NoValue, [ap |-> actor.ap]))
    ELSE
    Bind(_choose_target(Assign([p.c EXCEPT !.acting = actor], p.actor, [actor EXCEPT !.ap = 0]),
                        actor, "player"),
    LAMBDA t :
    IF t.target = NoRef THEN ActionLoop(t.c, fuel - 1)
    ELSE ActionLoop(_deal_damage(t.c, p.actor, t.target), fuel - 1)))))

\* one pass of the "while state['tick'] < tick_limit" loop (lines 493-530); done says
\* that the loop has been left, by its condition or by a break
TickPass(c, tick_limit) ==
    IF ~(c.state.tick < tick_limit) THEN [c |-> c, done |-> TRUE]
    ELSE
    Bind([c EXCEPT !.state.tick = @ + 1, !.ctx.tick = c.state.tick + 1],
    LAMBDA c1 :
    Bind(FillTick(c1),
    LAMBDA c2 :
    Bind(ActionLoop(c2, Len(AllRefs(c2)) + 2),
    LAMBDA c3 :
    [c |-> c3, done |-> c3.diverged \/ c3.state.phase \in {PHASE_AWAIT_PLAYER, PHASE_ENDED}])))

\* at most n passes, split in halves to keep the evaluation shallow
RECURSIVE TickPasses(_, _, _)
TickPasses(r, tick_limit, n) ==
    IF r.done \/ n = 0 THEN r
    ELSE IF n = 1 THEN TickPass(r.c, tick_limit)
    ELSE TickPasses(TickPasses(r, tick_limit, n \div 2), tick_limit, n - n \div 2)

\* the loop; fuel counts the passes left before the computation is declared divergent
TickLoop(c, tick_limit, fuel) ==
    Bind(TickPasses([c |-> c, done |-> FALSE], tick_limit, fuel),
    LAMBDA r :
    IF r.done THEN r.c ELSE [r.c EXCEPT !.diverged = TRUE])

\* the computation a call starts with: rng, ctx and the re-hydrated units;
\* h carries the history fields (trace, acting, ready_at, diverged)
Computation(st, entropy, h) ==
    [state |-> st,
     ctx |-> BattleContext(Random(st.seed, entropy), st.log),
     player_units |-> SeqMap(_unit_from_dict, st.player_units),
     enemy_units |-> SeqMap(_unit_from_dict, st.enemy_units),
     trace |-> h.trace, acting |-> h.acting, ready_at |-> h.ready_at, diverged |-> h.diverged,
     picks |-> h.picks, fills |-> h.fills]

History(c) ==
    [trace |-> c.trace, acting |-> c.acting, ready_at |-> c.ready_at, diverged |-> c.diverged,
     picks |-> c.picks, fills |-> c.fills]

\* "persist": state["log"] = ctx.log and the units written back as dicts
Persist(c) ==
    [c EXCEPT !.state.log = c.ctx.log,
              !.state.player_units = SeqMap(_unit_to_dict, c.player_units),
              !.state.enemy_units = SeqMap(_unit_to_dict, c.enemy_units)]

\* variant of battle_state_advance_until_pause: the tick limit does not end the battle
battle_state_advance_until_pause_NoDraw(st, entropy, h) ==
    Bind(Computation(st, entropy, h),
    LAMBDA c0 :
    IF st.phase = PHASE_ENDED THEN c0
    ELSE
    Bind(TickLoop(c0, st.tick_limit, Max(st.tick_limit - st.tick, 0) + 1),
    LAMBDA c1 :
    Persist(c1)))

\* variant of battle_state_advance_until_pause: an ENDED state is not returned at once
battle_state_advance_until_pause_NoEndedReturn(st, entropy, h) ==
    Bind(Computation(st, entropy, h),
    LAMBDA c0 :
    Bind(TickLoop(c0, st.tick_limit, Max(st.tick_limit - st.tick, 0) + 1),
    LAMBDA c1 :
    IF c1.state.tick >= st.tick_limit /\ c1.state.phase # PHASE_ENDED
    THEN Persist(Emit([c1 EXCEPT !.state.winner = "draw", !.state.phase = PHASE_ENDED],
                      event(c1.ctx.tick, "end", NoTag, NoTag, NoValue, [winner |-> "draw"])))
    ELSE Persist(c1)))

\* variant of battle_state_advance_until_pause: the draw does not wait for the tick limit
battle_state_advance_until_pause_DrawAnyTick(st, entropy, h) ==
    Bind(Computation(st, entropy, h),
    LAMBDA c0 :
    IF st.phase = PHASE_ENDED THEN c0
    ELSE
    Bind(TickLoop(c0, st.tick_limit, Max(st.tick_limit - st.tick, 0) + 1),
    LAMBDA c1 :
    IF c1.state.phase # PHASE_ENDED
    THEN Persist(Emit([c1 EXCEPT !.state.winner = "draw", !.state.phase = PHASE_ENDED],
                      event(c1.ctx.tick, "end", NoTag, NoTag, NoValue, [winner |-> "draw"])))
    ELSE Persist(c1)))

\* variant of battle_state_advance_until_pause: the draw at the tick limit is not logged
battle_state_advance_until_pause_SilentDraw(st, entropy, h) ==
    Bind(Computation(st, entropy, h),
    LAMBDA c0 :
    IF st.phase = PHASE_ENDED THEN c0
    ELSE
    Bind(TickLoop(c0, st.tick_limit, Max(st.tick_limit - st.tick, 0) + 1),
    LAMBDA c1 :
    IF c1.state.tick >= st.tick_limit /\ c1.state.phase # PHASE_ENDED
    THEN Persist([c1 EXCEPT !.state.winner = "draw", !.state.phase = PHASE_ENDED])
    ELSE Persist(c1)))

battle_state_advance_until_pause(st, entropy, h) ==
    Bind(Computation(st, entropy, h),
    LAMBDA c0 :
    IF st.phase = PHASE_ENDED THEN c0
    ELSE
    Bind(TickLoop(c0, st.tick_limit, Max(st.tick_limit - st.tick, 0) + 1),
    LAMBDA c1 :
    IF c1.state.tick >= st.tick_limit /\ c1.state.phase # PHASE_ENDED
    THEN Persist(Emit([c1 EXCEPT !.state.winner = "draw", !.state.phase = PHASE_ENDED],
                      event(c1.ctx.tick, "end", NoTag, NoTag, NoValue, [winner |-> "draw"])))
    ELSE Persist(c1)))

\* variant of battle_state_player_basic_attack: only a missing awaiting makes it a no-op
battle_state_player_basic_attack_NoPhaseCheck(st, target_side, target_row, target_slot, entropy, h) ==
    LET \* "state['phase'] = PHASE_RUNNING; state['awaiting'] = None", persist, advance
        Resume(c) ==
            Bind(Persist([c EXCEPT !.state.phase = PHASE_RUNNING, !.state.awaiting = <<>>]),
                 LAMBDA r : battle_state_advance_until_pause(r.state, entropy, History(r)))
    IN
    Bind(Computation(st, entropy, h),
    LAMBDA c0 :
    IF st.awaiting = <<>> THEN c0
    ELSE
    LET actor_id == st.awaiting[1]
        IsActor(r) == Deref(c0, r).id = actor_id /\ alive(Deref(c0, r))
    IN
    Bind(SeqFilter(IsActor, SideRefs(c0, "player")),
    LAMBDA found :
    IF found = <<>> THEN Resume(c0)
    ELSE
    LET a == Head(found)
        actor == Deref(c0, a)
        targets == IF target_side = "enemy" THEN "enemy" ELSE "player"
        IsTarget(r) == LET u == Deref(c0, r) IN alive(u) /\ u.row = target_row /\ u.slot = target_slot
    IN
    IF actor.ap < TURN_THRESHOLD THEN Resume(c0)
    ELSE
    Bind(SeqFilter(IsTarget, SideRefs(c0, targets)),
    LAMBDA hit :
    IF hit = <<>>
    THEN Persist(Emit(c0, event(c0.ctx.tick, "error", tag(actor), NoTag, NoValue,
                                [message |-> "Invalid target"])))
    ELSE Resume(_deal_damage(Assign([c0 EXCEPT !.ctx.tick = st.tick, !.acting = actor],
                                    a, [actor EXCEPT !.ap = 0]),
                             a, Head(hit))))))

\* variant of battle_state_player_basic_attack: the tick loop is not resumed
battle_state_player_basic_attack_NoResume(st, target_side, target_row, target_slot, entropy, h) ==
    LET \* "state['phase'] = PHASE_RUNNING; state['awaiting'] = None", persist, advance
        Resume(c) ==
            Persist([c EXCEPT !.state.phase = PHASE_RUNNING, !.state.awaiting = <<>>])
    IN
    Bind(Computation(st, entropy, h),
    LAMBDA c0 :
    IF st.phase # PHASE_AWAIT_PLAYER \/ st.awaiting = <<>> THEN c0
    ELSE
    LET actor_id == st.awaiting[1]
        IsActor(r) == Deref(c0, r).id = actor_id /\ alive(Deref(c0, r))
    IN
    Bind(SeqFilter(IsActor, SideRefs(c0, "player")),
    LAMBDA found :
    IF found = <<>> THEN Resume(c0)
    ELSE
    LET a == Head(found)
        actor == Deref(c0, a)
        targets == IF target_side = "enemy" THEN "enemy" ELSE "player"
        IsTarget(r) == LET u == Deref(c0, r) IN alive(u) /\ u.row = target_row /\ u.slot = target_slot
    IN
    IF actor.ap < TURN_THRESHOLD THEN Resume(c0)
    ELSE
    Bind(SeqFilter(IsTarget, SideRefs(c0, targets)),
    LAMBDA hit :
    IF hit = <<>>
    THEN Persist(Emit(c0, event(c0.ctx.tick, "error", tag(actor), NoTag, NoValue,
                                [message |-> "Invalid target"])))
    ELSE Resume(_deal_damage(Assign([c0 EXCEPT !.ctx.tick = st.tick, !.acting = actor],
                                    a, [actor EXCEPT !.ap = 0]),
                             a, Head(hit))))))

battle_state_player_basic_attack(st, target_side, target_row, target_slot, entropy, h) ==
    LET \* "state['phase'] = PHASE_RUNNING; state['awaiting'] = None", persist, advance
        Resume(c) ==
            Bind(Persist([c EXCEPT !.state.phase = PHASE_RUNNING, !.state.awaiting = <<>>]),
                 LAMBDA r : battle_state_advance_until_pause(r.state, entropy, History(r)))
    IN
    Bind(Computation(st, entropy, h),
    LAMBDA c0 :
    IF st.phase # PHASE_AWAIT_PLAYER \/ st.awaiting = <<>> THEN c0
    ELSE
    LET actor_id == st.awaiting[1]
        IsActor(r) == Deref(c0, r).id = actor_id /\ alive(Deref(c0, r))
    IN
    Bind(SeqFilter(IsActor, SideRefs(c0, "player")),
    LAMBDA found :
    IF found = <<>> THEN Resume(c0)
    ELSE
    LET a == Head(found)
        actor == Deref(c0, a)
        targets == IF target_side = "enemy" THEN "enemy" ELSE "player"
        IsTarget(r) == LET u == Deref(c0, r) IN alive(u) /\ u.row = target_row /\ u.slot = target_slot
    IN
    IF actor.ap < TURN_THRESHOLD THEN Resume(c0)
    ELSE
    Bind(SeqFilter(IsTarget, SideRefs(c0, targets)),
    LAMBDA hit :
    IF hit = <<>>
    THEN Persist(Emit(c0, event(c0.ctx.tick, "error", tag(actor), NoTag, NoValue,
                                [message |-> "Invalid target"])))
    ELSE Resume(_deal_damage(Assign([c0 EXCEPT !.ctx.tick = st.tick, !.acting = actor],
                                    a, [actor EXCEPT !.ap = 0]),
                             a, Head(hit))))))

battle_state_new(player_units, enemy_units, seed, tick_limit) ==
    LET ctx == BattleContext(Random(seed, 0), <<>>)
        log == <<event(0, "start", NoTag, NoTag, NoValue, [tick_limit |-> tick_limit])>>
    IN  [tick |-> 0, tick_limit |-> tick_limit, seed |-> seed, winner |-> NoWinner,
         phase |-> PHASE_RUNNING, awaiting |-> <<>>, log |-> log,
         player_units |-> SeqMap(_unit_to_dict, player_units),
         enemy_units |-> SeqMap(_unit_to_dict, enemy_units)]


-----------------------------------------------------------------------------
(* BUILD UNITS *)

calc_stats(hero_base, level) ==
    LET lv == Max(1, level)
        delta == lv - 1
    IN  [hp |-> hero_base.base_hp + hero_base.growth_hp * delta,
         atk |-> hero_base.base_atk + hero_base.growth_atk * delta,
         def |-> hero_base.base_def + hero_base.growth_def * delta,
         matk |-> hero_base.base_matk + hero_base.growth_matk * delta,
         mdef |-> hero_base.base_mdef + hero_base.growth_mdef * delta,
         speed |-> hero_base.base_speed + hero_base.growth_speed * delta]

get_kit_for(hero_base) ==
    IF hero_base.faction = "Undead" THEN <<"Undead Resilience">>
    ELSE IF hero_base.faction = "Wild" THEN <<"Back Row Channel">>
    ELSE <<>>

UnitRuntime(id, side, name, level, row, slot, stats, abilities) ==
    [id |-> id, side |-> side, name |-> name, level |-> level, row |-> row, slot |-> slot,
     stats |-> stats, hp |-> stats.hp, max_hp |-> stats.hp, ap |-> 0,
     abilities |-> abilities, temp_mods |-> <<>>]

\* formation maps an instance id to <<row, slot>>; an id it lacks gets <<"back", 0>>
build_units_from_instances(side, hero_instances, formation) ==
    [i \in 1..Len(hero_instances) |->
        LET inst == hero_instances[i]
            pos == IF inst.id \in DOMAIN formation THEN formation[inst.id] ELSE <<"back", 0>>
        IN  UnitRuntime(inst.id, side, inst.hero_base.name, inst.level, pos[1], pos[2],
                        calc_stats(inst.hero_base, inst.level), get_kit_for(inst.hero_base))]

build_enemy_units(hero_bases, level) ==
    [j \in 1..Min(Len(hero_bases), 5) |->
        LET i == j - 1
            hb == hero_bases[j]
        IN  UnitRuntime(NoId, "enemy", hb.name, level,
                        IF i < 2 THEN "front" ELSE "back", IF i < 2 THEN i ELSE i - 2,
                        calc_stats(hb, level), get_kit_for(hb))]

-----------------------------------------------------------------------------
(* the hero bases, rosters and formations the battles are started from *)

HeroBase(name, faction, hp, atk, def, speed, growth) ==
    [name |-> name, faction |-> faction,
     base_hp |-> hp, base_atk |-> atk, base_def |-> def, base_matk |-> 0, base_mdef |-> 0,
     base_speed |-> speed,
     growth_hp |-> growth, growth_atk |-> growth, growth_def |-> 0, growth_matk |-> 0,
     growth_mdef |-> 0, growth_speed |-> 0]

Knight == HeroBase("Knight", "Order", 12, 8, 4, 10000, 2)
Rogue == HeroBase("Rogue", "Wild", 6, 20, 0, 20000, 1)
Ghoul == HeroBase("Ghoul", "Undead", 10, 3, 10, 5000, 1)
Slug == HeroBase("Slug", "Wild", 25, 1, 0, -300, 0)

HeroInstance(id, hero_base, level) == [id |-> id, hero_base |-> hero_base, level |-> level]

\* a roster in squad order with its formation
PlayerSquads ==
    { [insts |-> <<HeroInstance(1, Knight, 1)>>, formation |-> (1 :> <<"front", 0>>)],
      [insts |-> <<HeroInstance(1, Knight, 1), HeroInstance(2, Slug, 1)>>,
       formation |-> (1 :> <<"front", 0>>) @@ (2 :> <<"back", 0>>)],
      [insts |-> <<HeroInstance(5, Ghoul, 1)>>, formation |-> (6 :> <<"front", 0>>)],
      [insts |-> <<HeroInstance(3, Rogue, 1), HeroInstance(4, Ghoul, 2)>>,
       formation |-> (3 :> <<"front", 1>>) @@ (4 :> <<"mid", 1>>)] }

EnemySquads ==
    { <<Knight>>, <<Rogue>>, <<Rogue, Ghoul>>, <<Rogue, Rogue>> }

EnemyLevels == {1}

\* the duel: one player unit (hp 100, atk 20, def 0, speed 100) against one enemy unit
\* (hp 50, atk 5, def 0, speed 10), tick_limit 50
Duelist == HeroBase("Duelist", "Order", 100, 20, 0, 100, 0)
Dummy == HeroBase("Dummy", "Order", 50, 5, 0, 10, 0)
Duel ==
    [insts |-> <<HeroInstance(7, Duelist, 1)>>, formation |-> (7 :> <<"front", 0>>),
     enemies |-> <<Dummy>>, level |-> 1, tick_limit |-> 50]

\* a skirmish of one fast player unit against one slower enemy it kills in one blow
Skirmish ==
    [insts |-> <<HeroInstance(3, Rogue, 1)>>, formation |-> (3 :> <<"front", 0>>),
     enemies |-> <<Knight>>, level |-> 1]

\* a hunt of two equal player units for one enemy that falls to the second blow
Hunt ==
    [insts |-> <<HeroInstance(3, Rogue, 1), HeroInstance(8, Rogue, 1)>>,
     formation |-> (3 :> <<"front", 0>>) @@ (8 :> <<"front", 1>>),
     enemies |-> <<Slug>>, level |-> 1]

-----------------------------------------------------------------------------
(* the calls made on a battle *)

NoUnit == <<>>
NoHistory(n, m) ==
    [trace |-> <<>>, acting |-> NoUnit, diverged |-> FALSE, picks |-> <<>>, fills |-> <<>>,
     ready_at |-> [player |-> [i \in 1..n |-> 0], enemy |-> [i \in 1..m |-> 0]]]

NoArgs == <<>>

ErrorCount(log) == Cardinality({i \in 1..Len(log) : log[i].type = "error"})

\* the record kept of a call: what was called on which state, and what it resolved
Called(op, args, pre, c) ==
    [op |-> op, args |-> args, pre |-> pre, trace |-> c.trace, diverged |-> c.diverged,
     picks |-> c.picks, fills |-> c.fills]

\* the state after api_battle_start has built the units and called battle_state_new
Start(player_units, enemy_units, seed, tick_limit) ==
    /\ state = battle_state_new(player_units, enemy_units, seed, tick_limit)
    /\ call = [op |-> "new", args |-> NoArgs, pre |-> <<>>, trace |-> <<>>, diverged |-> FALSE,
               picks |-> <<>>, fills |-> <<>>]
    /\ ready_at = NoHistory(Len(player_units), Len(enemy_units)).ready_at
    /\ battle = [player_units |-> player_units, enemy_units |-> enemy_units,
                 seed |-> seed, tick_limit |-> tick_limit, ran |-> FALSE]
    /\ twin = battle_state_new(player_units, enemy_units, seed, tick_limit)
    /\ db = <<>>
    /\ req = <<>>

Init ==
    \/ \E sq \in PlayerSquads, hbs \in EnemySquads, lvl \in EnemyLevels,
          seed \in Seeds \cup {NoSeed}, tick_limit \in TickLimits :
            Start(build_units_from_instances("player", sq.insts, sq.formation),
                  build_enemy_units(hbs, lvl), seed, tick_limit)
    \/ \E seed \in Seeds :
            Start(build_units_from_instances("player", Duel.insts, Duel.formation),
                  build_enemy_units(Duel.enemies, Duel.level), seed, Duel.tick_limit)
    \/ \E seed \in Seeds \cup {NoSeed}, tick_limit \in TickLimits :
            Start(build_units_from_instances("player", Skirmish.insts, Skirmish.formation),
                  build_enemy_units(Skirmish.enemies, Skirmish.level), seed, tick_limit)
    \/ \E seed \in Seeds :
            Start(build_units_from_instances("player", Hunt.insts, Hunt.formation),
                  build_enemy_units(Hunt.enemies, Hunt.level), seed, MaxTickLimit)

StartHistory ==
    [trace |-> <<>>, acting |-> NoUnit, diverged |-> FALSE, ready_at |-> ready_at,
     picks |-> <<>>, fills |-> <<>>]

\* what random.Random(None) may be seeded with; a given seed leaves no choice
Entropy == IF state.seed = NoSeed THEN EntropyValues ELSE {state.seed}

\* api_battle_step: advance, whatever the phase
Advance ==
    /\ ~battle.ran
    /\ \E entropy \in Entropy :
        \E c \in {battle_state_advance_until_pause(state, entropy, StartHistory)} :
            /\ state' = c.state
            /\ call' = Called("advance", NoArgs, state, c)
            /\ ready_at' = c.ready_at
            /\ UNCHANGED <<battle, twin, db, req>>

\* api_battle_act: a player action on the unit at (target_side, target_row, target_slot)
PlayerAction ==
    /\ ~battle.ran
    /\ \E target_side \in Sides, target_row \in Rows, target_slot \in Slots, entropy \in Entropy :
        \E c \in {battle_state_player_basic_attack(state, target_side, target_row, target_slot,
                                                     entropy, StartHistory)} :
            /\ ErrorCount(c.state.log) <= MaxErrors
            /\ state' = c.state
            /\ call' = Called("act", <<target_side, target_row, target_slot>>, state, c)
            /\ ready_at' = c.ready_at
            /\ UNCHANGED <<battle, twin, db, req>>

\* views.battle: the whole battle run non-interactively on the units as built
RunBattle ==
    /\ ~battle.ran
    /\ call.op = "new"
    /\ \E entropy \in Entropy :
        \E r \in {run_battle(battle.player_units, battle.enemy_units, battle.seed,
                               battle.tick_limit, entropy, StartHistory)} :
            /\ battle' = [ran |-> TRUE, seed |-> battle.seed, tick_limit |-> battle.tick_limit,
                          before |-> [player_units |-> battle.player_units,
                                      enemy_units |-> battle.enemy_units],
                          result |-> r, player_units |-> r.player_units,
                          enemy_units |-> r.enemy_units]
            /\ ready_at' = r.ready_at
            /\ UNCHANGED <<state, call, twin, db, req>>

Next == Advance \/ PlayerAction \/ RunBattle

Spec == Init /\ [][Next]_vars

\* two runs of one seeded battle that receive the same calls with the same arguments;
\* whatever the entropy the system holds when the second run makes its call
InitTwin == Init /\ state.seed # NoSeed

AdvanceBoth ==
    \E e1 \in Entropy, e2 \in EntropyValues :
        \E c \in {battle_state_advance_until_pause(state, e1, StartHistory)},
           d \in {battle_state_advance_until_pause(twin, e2, StartHistory)} :
            /\ state' = c.state
            /\ twin' = d.state
            /\ call' = Called("advance", NoArgs, state, c)
            /\ ready_at' = c.ready_at
            /\ UNCHANGED <<battle, db, req>>

PlayerActionBoth ==
    \E target_side \in Sides, target_row \in Rows, target_slot \in Slots,
       e1 \in Entropy, e2 \in EntropyValues :
        \E c \in {battle_state_player_basic_attack(state, target_side, target_row, target_slot,
                                                     e1, StartHistory)},
           d \in {battle_state_player_basic_attack(twin, target_side, target_row, target_slot,
                                                     e2, StartHistory)} :
            /\ ErrorCount(c.state.log) <= MaxErrors
            /\ ErrorCount(d.state.log) <= MaxErrors
            /\ state' = c.state
            /\ twin' = d.state
            /\ call' = Called("act", <<target_side, target_row, target_slot>>, state, c)
            /\ ready_at' = c.ready_at
            /\ UNCHANGED <<battle, db, req>>

NextTwin == AdvanceBoth \/ PlayerActionBoth

SpecTwin == InitTwin /\ [][NextTwin]_vars

\* battles of one unit a side over a range of atk and def, the attacker in any row
Atks == {-3, 0, 2, 40}
Defs == {-5, 1, 90}
Brawler(atk, def) == HeroBase("Duelist", "Order", 30, atk, def, 10000, 0)
Bruiser(atk, def) == HeroBase("Dummy", "Order", 30, atk, def, 20000, 0)

InitArena ==
    \E atk \in Atks, def \in Defs, row \in Rows, seed \in Seeds :
        Start(build_units_from_instances("player", <<HeroInstance(7, Brawler(atk, def), 1)>>,
                                         (7 :> <<row, 0>>)),
              build_enemy_units(<<Bruiser(atk, def)>>, 1), seed, MaxTickLimit)

NextArena == Advance \/ PlayerAction

SpecArena == InitArena /\ [][NextArena]_vars

\* the state shown to the client: battle_state_snapshot on the stored state
Snapshot ==
    \E log_tail \in LogTails :
        \E r \in {battle_state_snapshot(state, log_tail)} :
            /\ state' = r.state
            /\ call' = [op |-> "snapshot", args |-> <<log_tail>>, pre |-> state,
                        trace |-> <<>>, diverged |-> FALSE, picks |-> <<>>, fills |-> <<>>,
                        result |-> r.snap]
            /\ UNCHANGED <<ready_at, battle, twin, db, req>>

NextSnapshot == Advance \/ PlayerAction \/ Snapshot

SpecSnapshot == InitTwin /\ [][NextSnapshot]_vars

-----------------------------------------------------------------------------
(* SUMMON (models.summon_random_hero, called by views.summon_one) *)

\* "summon_random_hero(profile, cost=5000)"
SummonCost == 5000

MaxRequests == 3
Requests == 1..MaxRequests

\* the coins of the profile when the requests arrive
StartCoins == {0, 4999, 5000, 10000, 12000}

\* the number of HeroBase rows
PoolSizes == {0, 2}

\* what the database does with a plain SELECT followed by an UPDATE in a transaction:
\* "mvcc": the SELECT takes no lock and the UPDATE waits for the row's writer to commit
\* (READ COMMITTED); "locking": the SELECT holds a shared lock on the database until the
\* transaction ends, a second writer is refused, a commit waits for the readers (SQLite)
Backends == {"mvcc", "locking"}

NoWriter == 0

InitSummon ==
    /\ \E backend \in Backends, coins \in StartCoins, pool \in PoolSizes :
            db = [backend |-> backend, coins |-> coins, heroes |-> 0, pool |-> pool,
                  writer |-> NoWriter, readers |-> {}, start_coins |-> coins]
    /\ req = [p \in Requests |-> [pc |-> "new", coins |-> 0, result |-> "pending"]]
    /\ state = <<>>
    /\ call = <<>>
    /\ ready_at = <<>>
    /\ battle = <<>>
    /\ twin = <<>>

\* "return None" or an exception leaving the function: the transaction, if one is open,
\* ends without a write
Leave(p, result) ==
    /\ req' = [req EXCEPT ![p].pc = "done", ![p].result = result]
    /\ db' = [db EXCEPT !.readers = @ \ {p}, !.writer = IF @ = p THEN NoWriter ELSE @]

\* summon_one: "profile, _ = PlayerProfile.objects.get_or_create(user=request.user)"
LoadProfile(p) ==
    /\ req[p].pc = "new"
    /\ req' = [req EXCEPT ![p].pc = "loaded", ![p].coins = db.coins]
    /\ UNCHANGED db

\* "if profile.coins < cost: return None", then the choice of a HeroBase:
\* "if not pool: return None"
ChooseBase(p) ==
    /\ req[p].pc = "loaded"
    /\ IF req[p].coins < SummonCost \/ db.pool = 0
       THEN Leave(p, "None")
       ELSE req' = [req EXCEPT ![p].pc = "chosen"] /\ UNCHANGED db

\* "with transaction.atomic(): profile.refresh_from_db()"
Refresh(p) ==
    /\ req[p].pc = "chosen"
    /\ req' = [req EXCEPT ![p].pc = "in_txn", ![p].coins = db.coins]
    /\ db' = [db EXCEPT !.readers = @ \cup {p}]

\* "if profile.coins < cost: return None"
Recheck(p) ==
    /\ req[p].pc = "in_txn"
    /\ IF req[p].coins < SummonCost
       THEN Leave(p, "None")
       ELSE req' = [req EXCEPT ![p].pc = "rechecked"] /\ UNCHANGED db

\* "profile.coins -= cost; profile.save(update_fields=["coins"])": UPDATE ... SET coins =
\* the value computed in memory
Save(p) ==
    /\ req[p].pc = "rechecked"
    /\ IF db.writer = NoWriter
       THEN /\ req' = [req EXCEPT ![p].pc = "saved", ![p].coins = @ - SummonCost]
            /\ db' = [db EXCEPT !.writer = p]
       ELSE \* the row is being written by another transaction
            /\ db.backend = "locking"
            /\ Leave(p, "error")

\* "HeroInstance.objects.create(owner=profile.user, hero_base=base, level=1, xp=0)"
CreateHero(p) ==
    /\ req[p].pc = "saved"
    /\ req' = [req EXCEPT ![p].pc = "created"]
    /\ UNCHANGED db

\* the end of the atomic block: the UPDATE and the INSERT are committed together
Commit(p) ==
    /\ req[p].pc = "created"
    /\ db.backend = "locking" => db.readers \ {p} = {}
    /\ req' = [req EXCEPT ![p].pc = "done", ![p].result = "hero"]
    /\ db' = [db EXCEPT !.coins = req[p].coins, !.heroes = @ + 1,
                        !.writer = NoWriter, !.readers = @ \ {p}]

Summon(p) ==
    /\ \/ LoadProfile(p)
       \/ ChooseBase(p)
       \/ Refresh(p)
       \/ Recheck(p)
       \/ Save(p)
       \/ CreateHero(p)
       \/ Commit(p)
    /\ UNCHANGED <<state, call, ready_at, battle, twin>>

NextSummon == \E p \in Requests : Summon(p)

SpecSummon == InitSummon /\ [][NextSummon]_vars

-----------------------------------------------------------------------------
(* Properties *)

AllUnits(st) == st.player_units \o st.enemy_units
Indices(q) == 1..Len(q)
Last(q) == q[Len(q)]

\* a call of the player action made while a living, ready actor was awaited
ActedWhileAwaited ==
    /\ call.op = "act"
    /\ call.pre.phase = PHASE_AWAIT_PLAYER
    /\ call.pre.awaiting # <<>>

AwaitedActorReady(st) ==
    \E i \in Indices(st.player_units) :
        /\ st.player_units[i].id = st.awaiting[1]
        /\ alive(st.player_units[i])
        /\ st.player_units[i].ap >= TURN_THRESHOLD

\* the living unit of the addressed side at the addressed row and slot, if any
Addressed(st, args) ==
    LET units == IF args[1] = "enemy" THEN st.enemy_units ELSE st.player_units
    IN  {i \in Indices(units) : alive(units[i]) /\ units[i].row = args[2] /\ units[i].slot = args[3]}

\* C1: in every reachable state phase is RUNNING, AWAIT_PLAYER or ENDED, awaiting is
\* non-null iff phase is AWAIT_PLAYER, and winner is non-null iff phase is ENDED.
C1_PhaseAwaitingWinner ==
    /\ state.phase \in {PHASE_RUNNING, PHASE_AWAIT_PLAYER, PHASE_ENDED}
    /\ (state.awaiting # <<>>) <=> (state.phase = PHASE_AWAIT_PLAYER)
    /\ (state.winner # NoWinner) <=> (state.phase = PHASE_ENDED)

\* C2: every advance started from RUNNING (called directly, or resumed by a player
\* action) terminates, moves tick forward by at most tick_limit and returns with phase
\* AWAIT_PLAYER or ENDED; the per-tick action loop never runs out of its iterations.
C2_AdvanceReachesPauseOrEnd ==
    /\ ~call.diverged
    /\ (call.op = "advance" /\ call.pre.phase = PHASE_RUNNING) =>
            /\ state.phase \in {PHASE_AWAIT_PLAYER, PHASE_ENDED}
            /\ state.tick >= call.pre.tick
            /\ state.tick - call.pre.tick <= state.tick_limit
    /\ ActedWhileAwaited =>
            /\ state.phase \in {PHASE_AWAIT_PLAYER, PHASE_ENDED}
            /\ state.tick >= call.pre.tick
            /\ state.tick - call.pre.tick <= state.tick_limit

\* an advance from RUNNING that ran over two ticks or more and resolved an attack
C2_Witness ==
    /\ call.op = "advance"
    /\ call.pre.phase = PHASE_RUNNING
    /\ state.tick >= call.pre.tick + 2
    /\ call.trace # <<>>

UnitHealthOK(u) == 0 <= u.hp /\ u.hp <= u.max_hp /\ (~alive(u) <=> u.hp = 0)

TraceHealthOK(trace) ==
    \A i \in Indices(trace) : UnitHealthOK(trace[i].before) /\ UnitHealthOK(trace[i].after)

\* C3: every unit, in every state of the step engine and of run_battle, after the
\* battle-start hooks and after every attack, has 0 <= hp <= max_hp, and is not alive
\* exactly when hp = 0.
C3_HealthBounds ==
    /\ \A i \in Indices(AllUnits(state)) : UnitHealthOK(AllUnits(state)[i])
    /\ \A i \in Indices(AllUnits(battle)) : UnitHealthOK(AllUnits(battle)[i])
    /\ TraceHealthOK(call.trace)
    /\ battle.ran => TraceHealthOK(battle.result.trace)

\* run_battle ended with a unit whose max_hp a battle-start hook raised and which an
\* attack of more damage than it had hp left killed
C3_Witness ==
    /\ battle.ran
    /\ \E i \in Indices(battle.result.trace) :
        LET e == battle.result.trace[i]
        IN  /\ e.before.max_hp > e.before.stats.hp
            /\ e.dmg > e.before.hp
            /\ e.after.hp = 0

\* C4: every attack of the step engine is made by a unit alive when it strikes, on a
\* unit alive when it is struck, and an enemy's attack strikes a unit of the player side.
C4_OnlyLivingUnitsFight ==
    \A i \in Indices(call.trace) :
        LET e == call.trace[i]
        IN  /\ alive(e.attacker)
            /\ alive(e.acting)
            /\ alive(e.before)
            /\ e.source.side = "enemy" => (e.target.side = "player" /\ e.before.side = "player")

\* an enemy struck while a unit of the player side was already dead
C4_Witness ==
    /\ call.op \in {"advance", "act"}
    /\ \E j \in Indices(call.pre.player_units) : ~alive(call.pre.player_units[j])
    /\ \E i \in Indices(call.trace) : call.trace[i].source.side = "enemy"

ApOK(u) == 0 <= u.ap /\ u.ap <= TURN_THRESHOLD

\* C5: every unit of a battle started with ap = 0 has 0 <= ap <= TURN_THRESHOLD in every
\* state, and when it is chosen to act, strikes or is struck, whatever its speed.
C5_ApBounds ==
    /\ \A i \in Indices(AllUnits(state)) : ApOK(AllUnits(state)[i])
    /\ \A i \in Indices(AllUnits(battle)) : ApOK(AllUnits(battle)[i])
    /\ \A i \in Indices(call.trace) :
        ApOK(call.trace[i].acting) /\ ApOK(call.trace[i].before) /\ ApOK(call.trace[i].attacker_after)

\* a unit of negative speed has gained ap, next to a unit whose gain per tick exceeds
\* the threshold
C5_Witness ==
    /\ \E i \in Indices(AllUnits(state)) :
        AllUnits(state)[i].stats.speed < 0 /\ AllUnits(state)[i].ap >= 2
    /\ \E i \in Indices(AllUnits(state)) :
        AllUnits(state)[i].stats.speed > TURN_THRESHOLD * SPEED_TO_AP_DIVISOR

\* C6: the source of every attack had ap = TURN_THRESHOLD when chosen and has ap = 0
\* after the attack, and the attack is stamped with the tick at which the source's ap
\* reached the threshold (a ready unit's action is not deferred to a later tick).
C6_ActsInTheTickItIsReady ==
    \A i \in Indices(call.trace) :
        LET e == call.trace[i]
        IN  /\ e.acting.ap = TURN_THRESHOLD
            /\ e.attacker_after.ap = 0
            /\ e.tick = e.ready_tick

\* C7: two runs from the same units, the same non-null seed and the same tick_limit
\* that receive the same calls with the same arguments agree after every call on the
\* log, phase, tick, winner, awaiting and every unit's hp and ap.
C7_SeededRunsAgree ==
    state.seed # NoSeed => twin = state

\* both runs of a seeded battle have ended after a player action, with random draws
\* having broken a tie or chosen among two targets
C7_Witness ==
    /\ state.seed # NoSeed
    /\ call.op = "act"
    /\ state.phase = PHASE_ENDED
    /\ twin.phase = PHASE_ENDED
    /\ Len(state.player_units) = 2
    /\ \E i \in Indices(call.trace) : call.trace[i].source.side = "enemy"

\* C8: a player action on a state whose phase is not AWAIT_PLAYER returns the state
\* as it was: phase, tick, winner, awaiting, log and every unit.
C8_NoOpUnlessAwaited ==
    (call.op = "act" /\ call.pre.phase # PHASE_AWAIT_PLAYER) => state = call.pre

\* a player action that addressed a living enemy was made on an ENDED state that still
\* names an awaited actor
C8_Witness ==
    /\ call.op = "act"
    /\ call.pre.phase = PHASE_ENDED
    /\ call.pre.awaiting # <<>>
    /\ call.args[1] = "enemy"
    /\ Addressed(call.pre, call.args) # {}

\* C9: a player action made in phase AWAIT_PLAYER on an invalid target appends exactly
\* one error event and changes nothing else.
C9_InvalidTargetOnlyLogsError ==
    (/\ call.op = "act"
     /\ call.pre.phase = PHASE_AWAIT_PLAYER
     /\ Addressed(call.pre, call.args) = {}) =>
        /\ Len(state.log) = Len(call.pre.log) + 1
        /\ Last(state.log).type = "error"
        /\ state = [call.pre EXCEPT !.log = Append(@, Last(state.log))]

\* C10: a player action that addresses a unit of the acting unit's own side, made while
\* a living ready actor is awaited, is rejected: an error event is logged, no player
\* unit loses hp, phase and awaiting stay.
C10_OwnSideTargetRejected ==
    (/\ ActedWhileAwaited
     /\ AwaitedActorReady(call.pre)
     /\ call.args[1] = "player") =>
        /\ Last(state.log).type = "error"
        /\ state.phase = PHASE_AWAIT_PLAYER
        /\ state.awaiting = call.pre.awaiting
        /\ \A i \in Indices(state.player_units) :
            state.player_units[i].hp = call.pre.player_units[i].hp

-----------------------------------------------------------------------------
\* the events a call appended to the log
NewEvents ==
    IF call.op = "new" THEN <<>> ELSE SubSeq(state.log, Len(call.pre.log) + 1, Len(state.log))

NoneAlive(units) == \A i \in Indices(units) : ~alive(units[i])

\* the log of a battle driven the way run_battle drives it: no rejected action, and
\* every pause answered at once by an attack of the paused unit on an enemy, unless the
\* battle ended in the tick of the pause
DrivenAutomatically(log) ==
    \A i \in Indices(log) :
        /\ log[i].type # "error"
        /\ (log[i].type = "pause" /\ i < Len(log)) =>
                \/ /\ log[i + 1].type = "attack"
                   /\ log[i + 1].source = log[i].source
                   /\ Len(log[i + 1].target) = 1
                \/ /\ log[i + 1].type = "end"
                   /\ log[i + 1].tick = log[i].tick

\* C11: once phase is ENDED, a call of advance or of the player action, whatever its
\* arguments, returns the state as it was: tick, winner, phase, awaiting, log, units.
C11_EndedIsTerminal ==
    (call.op \in {"advance", "act"} /\ call.pre.phase = PHASE_ENDED) => state = call.pre

\* an advance was made on a battle that had ended before its tick limit
C11_Witness ==
    /\ call.op = "advance"
    /\ call.pre.phase = PHASE_ENDED
    /\ call.pre.winner \in {"player", "enemy"}
    /\ call.pre.tick < call.pre.tick_limit

IsDuel(st) ==
    /\ st.tick_limit = Duel.tick_limit
    /\ Len(st.player_units) = 1
    /\ st.player_units[1].name = Duelist.name

\* C12: the duel, driven with the player attacking the enemy whenever awaited, ends
\* with winner player, a death event of the enemy in the log, and an attack of the
\* player unit before any attack of the enemy.
C12_DuelWonByPlayer ==
    (IsDuel(state) /\ state.phase = PHASE_ENDED /\ DrivenAutomatically(state.log)) =>
        /\ state.winner = "player"
        /\ \E i \in Indices(state.log) :
                state.log[i].type = "death" /\ state.log[i].source = <<Dummy.name>>
        /\ \E i \in Indices(state.log) :
                /\ state.log[i].type = "attack"
                /\ state.log[i].source = <<Duelist.name, Duel.insts[1].id>>
                /\ \A j \in 1..(i - 1) :
                        ~(state.log[j].type = "attack" /\ state.log[j].source = <<Dummy.name>>)

\* C13: a draw is only produced by the tick limit: a state whose winner is draw is
\* ENDED at tick = tick_limit, run_battle's draw is stamped tick_limit, and a battle in
\* which an attack has left a side without a living unit is never a draw.
C13_DrawOnlyAtTickLimit ==
    /\ state.winner = "draw" =>
            /\ state.phase = PHASE_ENDED
            /\ state.tick = state.tick_limit
            /\ ~NoneAlive(state.player_units)
            /\ ~NoneAlive(state.enemy_units)
    /\ (battle.ran /\ battle.result.winner = "draw") =>
            /\ Last(battle.result.log).tick = battle.tick_limit
            /\ ~NoneAlive(battle.player_units)
            /\ ~NoneAlive(battle.enemy_units)

\* a call that resolved attacks, one of them a kill, ended the battle in a draw
C13_Witness ==
    /\ state.winner = "draw"
    /\ \E i \in Indices(call.trace) : call.trace[i].after.hp = 0

\* the unit of the player side that the state awaits, dead or alive
AwaitedUnit(st) ==
    st.player_units[CHOOSE i \in Indices(st.player_units) : st.player_units[i].id = st.awaiting[1]]

\* C14: a call in which a unit of the player side was selected as the next ready actor
\* (a pause event was appended) returns with that pause event last in the log, phase
\* AWAIT_PLAYER, awaiting naming the unit, and the unit alive with its ap still at the
\* threshold and no attack of the unit after the pause.
C14_PlayerReadyPauses ==
    (/\ call.op \in {"advance", "act"}
     /\ \E i \in Indices(NewEvents) : NewEvents[i].type = "pause") =>
        /\ Last(state.log).type = "pause"
        /\ state.phase = PHASE_AWAIT_PLAYER
        /\ state.awaiting = <<Last(state.log).source[2]>>
        /\ alive(AwaitedUnit(state))
        /\ AwaitedUnit(state).ap = TURN_THRESHOLD
        /\ \A i, j \in Indices(NewEvents) :
                (NewEvents[i].type = "pause" /\ j > i) =>
                    ~(NewEvents[j].type = "attack" /\ NewEvents[j].source = NewEvents[i].source)

\* a player action with a living enemy addressed, made while an actor was awaited
ValidAction ==
    /\ ActedWhileAwaited
    /\ call.args[1] = "enemy"
    /\ Addressed(call.pre, call.args) # {}

\* C15: a player action with a valid target made in phase AWAIT_PLAYER appends first an
\* attack event of the awaited actor on the addressed unit, and no other attack of the
\* actor; the actor's ap is 0 after the attack; the state returned has phase
\* AWAIT_PLAYER or ENDED.
C15_ValidActionResolvesOneAttack ==
    ValidAction =>
        LET actor == AwaitedUnit(call.pre)
            target == call.pre.enemy_units[CHOOSE i \in Addressed(call.pre, call.args) : TRUE]
        IN  /\ NewEvents # <<>>
            /\ NewEvents[1].type = "attack"
            /\ NewEvents[1].source = tag(actor)
            /\ NewEvents[1].target = <<target.name>>
            /\ Cardinality({i \in Indices(NewEvents) :
                    NewEvents[i].type = "attack" /\ NewEvents[i].source = tag(actor)}) = 1
            /\ call.trace # <<>>
            /\ call.trace[1].attacker.id = actor.id
            /\ call.trace[1].attacker_after.ap = 0
            /\ state.phase \in {PHASE_AWAIT_PLAYER, PHASE_ENDED}

\* C16: in an ENDED state, winner player means no enemy is alive and some player unit
\* is; winner enemy means no player unit is alive; winner draw means tick = tick_limit
\* with a living unit on both sides; and no call returns a state that is not ENDED
\* while a side has no living unit.
C16_WinnerMatchesSurvivors ==
    /\ state.phase = PHASE_ENDED =>
            /\ state.winner \in {"player", "enemy", "draw"}
            /\ state.winner = "player" =>
                    (NoneAlive(state.enemy_units) /\ ~NoneAlive(state.player_units))
            /\ state.winner = "enemy" => NoneAlive(state.player_units)
            /\ state.winner = "draw" =>
                    /\ state.tick = state.tick_limit
                    /\ ~NoneAlive(state.player_units)
                    /\ ~NoneAlive(state.enemy_units)
    /\ state.phase # PHASE_ENDED =>
            (~NoneAlive(state.player_units) /\ ~NoneAlive(state.enemy_units))

\* a player action killed the last enemy and the battle ended with winner player
C16_Witness ==
    /\ call.op = "act"
    /\ state.phase = PHASE_ENDED
    /\ state.winner = "player"
    /\ \E i \in Indices(call.trace) :
            call.trace[i].source.side = "player" /\ call.trace[i].after.hp = 0

\* tick never decreases, never exceeds tick_limit, and is below it until the battle ends
TickBounded ==
    /\ call.op # "new" => state.tick >= call.pre.tick
    /\ state.tick <= state.tick_limit
    /\ state.phase # PHASE_ENDED => state.tick < state.tick_limit

\* C17 (as amended): tick is bounded as above, and every advance on a state that is not
\* ENDED, and every player action with a valid target on a state in phase AWAIT_PLAYER,
\* strictly increases tick or ends the battle; so at most tick_limit such calls are made
\* before ENDED.
C17_ProgressWhenAwaited ==
    /\ TickBounded
    /\ (\/ call.op = "advance" /\ call.pre.phase # PHASE_ENDED
        \/ ValidAction) =>
            (state.tick > call.pre.tick \/ state.phase = PHASE_ENDED)

\* a player action with a valid target moved the tick forward and the battle goes on
C17_Witness ==
    /\ ValidAction
    /\ state.tick > call.pre.tick
    /\ state.phase = PHASE_AWAIT_PLAYER

\* C17 (as stated): the same, for every player action with a valid target on a state
\* that is not ENDED, whatever its phase.
C17_ProgressUnlessEnded ==
    /\ TickBounded
    /\ (\/ call.op = "advance" /\ call.pre.phase # PHASE_ENDED
        \/ /\ call.op = "act"
           /\ call.pre.phase # PHASE_ENDED
           /\ call.args[1] = "enemy"
           /\ Addressed(call.pre, call.args) # {}) =>
            (state.tick > call.pre.tick \/ state.phase = PHASE_ENDED)

\* C18: battle_state_snapshot, for every state and every log_tail, leaves the state
\* unchanged (phase, tick, winner, awaiting, the log and every unit record), and the
\* phase, tick, winner and awaiting it returns are those of the state.
C18_SnapshotReadOnly ==
    call.op = "snapshot" =>
        /\ state = call.pre
        /\ call.result.phase = call.pre.phase
        /\ call.result.tick = call.pre.tick
        /\ call.result.winner = call.pre.winner
        /\ call.result.awaiting = call.pre.awaiting

\* a snapshot that shows less than the whole log, taken while a player action is awaited
C18_Witness ==
    /\ call.op = "snapshot"
    /\ state.phase = PHASE_AWAIT_PLAYER
    /\ Len(call.result.log) < Len(state.log)
    /\ call.result.log # <<>>

\* the unit as api_battle_start built it, abilities from the registry included
AsBuilt(ref) ==
    IF ref.side = "player" THEN battle.player_units[ref.idx] ELSE battle.enemy_units[ref.idx]

\* C19: the units an advance or a player action rehydrates from the persisted state
\* carry the abilities the registry gives for their faction: in every attack such a call
\* resolves, attacker and target have the abilities list they were built with.
C19_RehydratedAbilities ==
    call.op \in {"advance", "act"} =>
        \A i \in Indices(call.trace) :
            /\ call.trace[i].attacker.abilities = AsBuilt(call.trace[i].source).abilities
            /\ call.trace[i].before.abilities = AsBuilt(call.trace[i].target).abilities

\* the attack and death events of a log, as (source, target, value)
Strikes(log) ==
    SeqMap(LAMBDA e : <<e.source, e.target, e.value>>,
           SeqFilter(LAMBDA e : e.type \in {"attack", "death"}, log))

\* every choice is forced: one unit per side, of distinct speeds
Forced(st) ==
    /\ Len(st.player_units) = 1
    /\ Len(st.enemy_units) = 1
    /\ st.player_units[1].stats.speed # st.enemy_units[1].stats.speed

\* run_battle on the units, seed and tick_limit the battle was started with
AutoRun ==
    run_battle(battle.player_units, battle.enemy_units, battle.seed, battle.tick_limit,
               battle.seed, NoHistory(Len(battle.player_units), Len(battle.enemy_units)))

\* C20: a seeded battle in which every choice is forced, driven to ENDED by advance and,
\* at every pause, a player action on the living enemy, has the winner and the sequence
\* of attack and death events (source, target, value) that run_battle produces for the
\* same units, seed and tick_limit.
C20_RunBattleEquivalent ==
    (/\ call.op \in {"advance", "act"}
     /\ state.phase = PHASE_ENDED
     /\ state.seed # NoSeed
     /\ Forced(state)
     /\ DrivenAutomatically(state.log)) =>
        /\ AutoRun.winner = state.winner
        /\ Strikes(AutoRun.log) = Strikes(state.log)

\* the ids of the player units that run_battle was given
SourceIds == {battle.before.player_units[i].id : i \in Indices(battle.before.player_units)} \ {NoId}

\* C21: the reward map run_battle returns has an entry for exactly the player units
\* with a source id; no enemy unit (they have none) is in it, whatever the winner.
C21_RewardsForSourceIds ==
    battle.ran =>
        /\ DOMAIN battle.result.xp = SourceIds
        /\ \A i \in Indices(battle.enemy_units) : battle.enemy_units[i].id \notin DOMAIN battle.result.xp

\* a lost battle of two player units, of which one never acted: both are rewarded
C21_Witness ==
    /\ battle.ran
    /\ battle.result.winner = "enemy"
    /\ Cardinality(DOMAIN battle.result.xp) = 2
    /\ \E i \in Indices(battle.player_units) :
            DictGet(battle.result.actions_taken, tag(battle.player_units[i])) = 0

\* the experience a unit that took no action receives when the battle is not won
Baseline(winner) == IF winner = "draw" THEN 60 ELSE 30

\* C22: when run_battle ends with winner draw or enemy, every rewarded unit receives the
\* same flat amount, the baseline of the outcome whatever the unit did, and that amount
\* is below the least a unit receives on a player win.
C22_FlatBaselineUnlessWon ==
    (battle.ran /\ battle.result.winner \in {"draw", "enemy"}) =>
        \A i, j \in DOMAIN battle.result.xp :
            /\ battle.result.xp[i] = battle.result.xp[j]
            /\ battle.result.xp[i] = Baseline(battle.result.winner)
            /\ battle.result.xp[i] < 120

\* the attacks of run_battle made by the player unit of index i
OwnAttacks(i) ==
    {k \in Indices(battle.result.trace) :
        battle.result.trace[k].source = [side |-> "player", idx |-> i]}

RECURSIVE SumDmg(_, _)
SumDmg(trace, ks) ==
    IF ks = {} THEN 0
    ELSE LET k == CHOOSE x \in ks : TRUE IN trace[k].dmg + SumDmg(trace, ks \ {k})

\* the damage the player unit of index i dealt, and the units it killed
DamageDealt(i) == SumDmg(battle.result.trace, OwnAttacks(i))
Kills(i) ==
    Cardinality({k \in OwnAttacks(i) :
        battle.result.trace[k].before.hp > 0 /\ battle.result.trace[k].after.hp = 0})

\* C23: when run_battle ends with winner player, experience is a function of damage dealt
\* and kills that grows with the kills: two rewarded units with equal damage and equal
\* kills receive the same, and of two with equal damage the one with more kills
\* receives strictly more.
C23_XpFromDamageAndKills ==
    (battle.ran /\ battle.result.winner = "player") =>
        \A i, j \in Indices(battle.player_units) :
            LET u == battle.player_units[i]
                v == battle.player_units[j]
            IN  (u.id # NoId /\ v.id # NoId /\ DamageDealt(i) = DamageDealt(j)) =>
                    /\ Kills(i) = Kills(j) => battle.result.xp[u.id] = battle.result.xp[v.id]
                    /\ Kills(i) > Kills(j) => battle.result.xp[u.id] > battle.result.xp[v.id]

\* the units of the winning side, as run_battle left them
WinningSide ==
    IF battle.result.winner = "player" THEN battle.player_units ELSE battle.enemy_units

\* the attacks of run_battle made by the unit of index i of the winning side
AttacksOfWinner(i) ==
    {k \in Indices(battle.result.trace) :
        battle.result.trace[k].source = [side |-> battle.result.winner, idx |-> i]}

OwnDamage(i) == SumDmg(battle.result.trace, AttacksOfWinner(i))

\* C24: when run_battle ends with winner player or enemy, the MVP is the first unit of
\* the winning side whose own damage dealt is maximal on that side, and the damage
\* reported is the sum of the values of the attacks that unit made; on a draw there is
\* no MVP.
C24_MvpIsTopDamageDealer ==
    battle.ran =>
        IF battle.result.winner = "draw" THEN battle.result.mvp = <<>>
        ELSE \E i \in Indices(WinningSide) :
                /\ \A j \in Indices(WinningSide) :
                        /\ OwnDamage(j) <= OwnDamage(i)
                        /\ j < i => OwnDamage(j) < OwnDamage(i)
                /\ battle.result.mvp =
                        <<[side |-> WinningSide[i].side, unit_id |-> WinningSide[i].id,
                           name |-> WinningSide[i].name, damage |-> OwnDamage(i)]>>

\* C25: within one battle no two distinct units, of the same side or of opposite sides,
\* as built by build_units_from_instances and build_enemy_units, have the same tag.
C25_TagsUnique ==
    \A i, j \in Indices(AllUnits(state)) :
        i # j => tag(AllUnits(state)[i]) # tag(AllUnits(state)[j])

\* the units that were alive with ap at the threshold when the pick was made
ReadyAt(pk) ==
    {[side |-> "player", idx |-> i] : i \in {x \in Indices(pk.player_units) :
        alive(pk.player_units[x]) /\ pk.player_units[x].ap >= TURN_THRESHOLD}}
    \cup {[side |-> "enemy", idx |-> i] : i \in {x \in Indices(pk.enemy_units) :
        alive(pk.enemy_units[x]) /\ pk.enemy_units[x].ap >= TURN_THRESHOLD}}

SpeedAt(pk, r) ==
    IF r.side = "player" THEN pk.player_units[r.idx].stats.speed
    ELSE pk.enemy_units[r.idx].stats.speed

\* the unit picked was ready, and no ready unit was faster
FastestFirst(picks) ==
    \A k \in Indices(picks) :
        /\ picks[k].actor \in ReadyAt(picks[k])
        /\ \A r \in ReadyAt(picks[k]) : SpeedAt(picks[k], r) <= SpeedAt(picks[k], picks[k].actor)

\* C26: whenever a unit is chosen to act or to be awaited, it is ready and no living
\* ready unit is strictly faster, in the step engine and in run_battle; and in the step
\* engine an enemy that is ready in a tick acts in that tick, unless the call returns
\* in that tick with the battle paused or ended.
C26_FastestFirst ==
    /\ FastestFirst(call.picks)
    /\ battle.ran => FastestFirst(battle.result.picks)
    /\ \A k \in Indices(call.picks) :
            \A r \in ReadyAt(call.picks[k]) :
                r.side = "enemy" =>
                    \/ \E k2 \in k..Len(call.picks) :
                            /\ call.picks[k2].tick = call.picks[k].tick
                            /\ call.picks[k2].actor = r
                    \/ /\ state.tick = call.picks[k].tick
                       /\ state.phase \in {PHASE_AWAIT_PLAYER, PHASE_ENDED}

\* an enemy was picked before a ready player unit of the same speed that stands
\* earlier in the list, and a slower ready enemy acted after it in the same tick
C26_Witness ==
    \E k \in Indices(call.picks) :
        LET pk == call.picks[k] IN
        /\ pk.actor.side = "enemy"
        /\ \E r \in ReadyAt(pk) : r.side = "player" /\ SpeedAt(pk, r) = SpeedAt(pk, pk.actor)
        /\ \E r \in ReadyAt(pk) : SpeedAt(pk, r) < SpeedAt(pk, pk.actor)

\* the ap a unit has after one tick of accumulation, as claimed
ApAfterTick(u) ==
    IF alive(u) THEN Min(TURN_THRESHOLD, u.ap + Max(1, u.stats.speed \div 100)) ELSE u.ap

\* every unit of every recorded tick got that ap, and nothing else of it changed
FillsAsClaimed(fills) ==
    \A k \in Indices(fills) :
        \A side \in {"player_units", "enemy_units"} :
            \A i \in Indices(fills[k].before[side]) :
                LET u == fills[k].before[side][i]
                    v == fills[k].after[side][i]
                IN  /\ v = [u EXCEPT !.ap = ApAfterTick(u)]
                    /\ (alive(u) /\ u.ap < TURN_THRESHOLD) => v.ap >= u.ap + 1

\* C27: on every tick, in the step engine and in run_battle, each living unit's ap
\* becomes min(100, ap + max(1, floor(speed / 100))), so a living unit below the
\* threshold gains at least 1; a dead unit's ap is not changed.
C27_ApPerTick ==
    /\ FillsAsClaimed(call.fills)
    /\ battle.ran => FillsAsClaimed(battle.result.fills)

\* a tick in which a unit of negative speed gained 1 ap while a dead unit stood by
C27_Witness ==
    \E k \in Indices(call.fills) :
        LET f == call.fills[k] IN
        /\ \E i \in Indices(f.before.player_units) :
                /\ f.before.player_units[i].stats.speed < 0
                /\ alive(f.before.player_units[i])
                /\ f.after.player_units[i].ap = f.before.player_units[i].ap + 1
        /\ \E i \in Indices(f.before.player_units) :
                /\ ~alive(f.before.player_units[i])
                /\ f.before.player_units[i].ap > 0

\* C28: whatever the attacker's atk and row and the target's def, a resolved attack has
\* damage of at least 1, which is the value of its attack event; the target's hp after
\* it is max(hp - damage, 0), strictly less than before.
C28_DamageAtLeastOne ==
    /\ \A k \in Indices(call.trace) :
            LET e == call.trace[k] IN
            /\ e.dmg >= 1
            /\ e.after.hp = Max(e.before.hp - e.dmg, 0)
            /\ e.before.hp > 0 => e.after.hp < e.before.hp
    /\ \A k \in Indices(state.log) : state.log[k].type = "attack" => state.log[k].value >= 1

\* an attack from the front row by a unit whose atk is negative, on a target of high def
C28_Witness ==
    \E k \in Indices(call.trace) :
        /\ call.trace[k].attacker.stats.atk < 0
        /\ call.trace[k].attacker.row = "front"
        /\ 2 * call.trace[k].attacker.stats.atk < call.trace[k].before.stats.def
        /\ call.trace[k].after.hp = call.trace[k].before.hp - 1

\* the positions of the attack events of a log, in order
AttackIdx(log) == SeqFilter(LAMBDA k : log[k].type = "attack", [k \in 1..Len(log) |-> k])

\* log[k] is the death event of the target of the attack event just before it
DeathOf(log, k) ==
    /\ k <= Len(log)
    /\ log[k].type = "death"
    /\ log[k].source = log[k - 1].target
    /\ log[k].tick = log[k - 1].tick

\* the events a call appended to the log, with the attacks it resolved and the units
\* it left: the j-th attack event is followed by the death event of its target exactly
\* when it left the target at hp 0, every death event follows an attack event, and
\* there are as many death events in the whole log as units with hp = 0
DeathsAsClaimed(log, from, trace, units) ==
    LET new == SubSeq(log, from, Len(log))
        at == AttackIdx(new)
    IN  /\ Len(at) = Len(trace)
        /\ \A j \in Indices(at) : (trace[j].after.hp = 0) <=> DeathOf(new, at[j] + 1)
        /\ \A k \in Indices(new) : new[k].type = "death" => k > 1 /\ new[k - 1].type = "attack"
        /\ Len(SeqFilter(LAMBDA e : e.type = "death", log))
                = Len(SeqFilter(LAMBDA u : u.hp = 0, units))

\* C29: a death event is emitted exactly once per unit, when its hp reaches 0: it is
\* the event right after the attack event that brought the target to hp 0, with the
\* same tick; no death event follows an attack that leaves the target alive; and the
\* log holds as many death events as there are units with hp = 0.
C29_DeathOncePerUnit ==
    /\ call.op \in {"advance", "act"} =>
            DeathsAsClaimed(state.log, Len(call.pre.log) + 1, call.trace, AllUnits(state))
    /\ call.op = "new" => DeathsAsClaimed(state.log, 1, <<>>, AllUnits(state))
    /\ battle.ran =>
            DeathsAsClaimed(battle.result.log, 1, battle.result.trace,
                            battle.result.player_units \o battle.result.enemy_units)

\* two units have died, in different calls, and a later attack left its target alive
C29_Witness ==
    /\ call.op \in {"advance", "act"}
    /\ Len(SeqFilter(LAMBDA e : e.type = "death", call.pre.log)) >= 1
    /\ \E j \in Indices(call.trace) : call.trace[j].after.hp = 0
    /\ \E j \in Indices(call.trace) : call.trace[j].after.hp > 0

\* the passive events by which Undead Resilience logs its effect at battle start
ResilienceEvents(log) ==
    SeqFilter(LAMBDA e : e.type = "passive" /\ e.meta.name = "Undead Resilience", log)

\* of the units of a battle as built, those with the Undead Resilience ability
Resilient(built) ==
    {i \in Indices(built) : \E a \in Indices(built[i].abilities) :
                                built[i].abilities[a] = "Undead Resilience"}

\* a battle's log and units show that every Undead Resilience of the units as built
\* received on_battle_start once, before the first tick
StartHooksRan(log, built, units) ==
    /\ Len(ResilienceEvents(log)) = Cardinality(Resilient(built))
    /\ \A i \in Resilient(built) :
            /\ units[i].max_hp = (built[i].max_hp * 110) \div 100
            /\ \E k \in Indices(log) :
                    /\ log[k].type = "passive"
                    /\ log[k].source = tag(built[i])
                    /\ \A j \in 1..k : log[j].tick = 0

\* run_battle has run the start hooks of both sides
RunStartHooksRan ==
    battle.ran =>
        /\ StartHooksRan(battle.result.log, battle.before.player_units \o battle.before.enemy_units,
                         battle.result.player_units \o battle.result.enemy_units)

\* C30: in run_battle and in the step engine started with battle_state_new alike,
\* every ability of every unit receives on_battle_start exactly once, before the first
\* tick; the effect of Undead Resilience (max_hp raised by 10%) is applied and logged
\* as a passive event.
C30_StartHooksOnce ==
    /\ RunStartHooksRan
    /\ ~battle.ran =>
            StartHooksRan(state.log, battle.player_units \o battle.enemy_units, AllUnits(state))

\* the fields of a unit that its serialized form keeps
KeptFields == {"id", "side", "name", "level", "row", "slot", "stats", "hp", "max_hp", "ap"}

\* _unit_from_dict(_unit_to_dict(u)) is u without its abilities and temp_mods
RoundTrip(u) ==
    LET v == _unit_from_dict(_unit_to_dict(u)) IN
    /\ DOMAIN v = KeptFields \cup {"abilities", "temp_mods"}
    /\ \A f \in KeptFields : v[f] = u[f]
    /\ v.abilities = <<>>
    /\ v.temp_mods = <<>>

\* the live units the engine has held: as built, as run_battle left them, and as they
\* stood when they struck or were struck in the last call
LiveUnits ==
    {battle.player_units[i] : i \in Indices(battle.player_units)}
        \cup {battle.enemy_units[i] : i \in Indices(battle.enemy_units)}
        \cup {call.trace[k].attacker_after : k \in Indices(call.trace)}
        \cup {call.trace[k].after : k \in Indices(call.trace)}

\* C31: for every unit u, _unit_from_dict(_unit_to_dict(u)) has the id, side, name,
\* level, row, slot, stats, hp, max_hp and ap of u, and empty abilities and temp_mods;
\* so the units a call rehydrates from the persisted state and persists again are
\* the persisted ones, field by field.
C31_UnitRoundTrip ==
    /\ \A u \in LiveUnits : RoundTrip(u)
    /\ \A i \in Indices(AllUnits(state)) :
            _unit_to_dict(_unit_from_dict(AllUnits(state)[i])) = AllUnits(state)[i]

\* a unit without id that holds an ability, per-action modifiers and ap, and has lost hp
C31_Witness ==
    \E u \in LiveUnits :
        /\ u.id = NoId
        /\ u.abilities # <<>>
        /\ u.temp_mods # <<>>
        /\ u.ap > 0
        /\ u.hp < u.max_hp

\* p is a prefix of q
IsPrefix(p, q) == Len(p) <= Len(q) /\ SubSeq(q, 1, Len(p)) = p

\* C32: the event log is append-only: for every advance, player action and snapshot,
\* the log before the call is a prefix of the log after it.
C32_LogAppendOnly ==
    call.op \in {"advance", "act", "snapshot"} => IsPrefix(call.pre.log, state.log)

\* a player action on a log that already holds attacks, which appended events to it
C32_Witness ==
    /\ call.op = "act"
    /\ \E k \in Indices(call.pre.log) : call.pre.log[k].type = "attack"
    /\ Len(state.log) >= Len(call.pre.log) + 2

\* C33: every event that an advance or a player action appends (error events too)
\* carries the battle's tick at the moment it is emitted, a tick between that of the
\* state before the call and that of the state after it; the last event appended carries
\* the tick the call left; so ticks never decrease along the log.
C33_EventsStampedWithTick ==
    /\ call.op \in {"advance", "act"} =>
        /\ \A k \in Indices(NewEvents) :
                call.pre.tick <= NewEvents[k].tick /\ NewEvents[k].tick <= state.tick
        /\ NewEvents # <<>> => NewEvents[Len(NewEvents)].tick = state.tick
    /\ \A k \in 1..(Len(state.log) - 1) : state.log[k].tick <= state.log[k + 1].tick

\* the positions of the events of a type in a log
EventsOfType(log, type) == {k \in Indices(log) : log[k].type = type}

\* C34: the log starts with the one start event, of tick 0; it holds an end event
\* exactly when phase is ENDED, and then exactly one, the last event of the log, whose
\* meta.winner is the state's winner.
C34_StartFirstEndLast ==
    /\ EventsOfType(state.log, "start") = {1}
    /\ state.log[1].tick = 0
    /\ (EventsOfType(state.log, "end") # {}) <=> (state.phase = PHASE_ENDED)
    /\ state.phase = PHASE_ENDED =>
            /\ EventsOfType(state.log, "end") = {Len(state.log)}
            /\ state.log[Len(state.log)].meta.winner = state.winner

\* a battle that ended with a death, after a rejected player action, and was called again
C34_Witness ==
    /\ state.phase = PHASE_ENDED
    /\ state.winner \in {"player", "enemy"}
    /\ EventsOfType(state.log, "error") # {}
    /\ call.op \in {"advance", "act"}
    /\ call.pre.phase = PHASE_ENDED

\* the unit a paused state awaits: a living player unit with a full bar
AwaitedIsReady(st) ==
    /\ st.awaiting # <<>>
    /\ \E i \in Indices(st.player_units) :
            /\ st.player_units[i].id = st.awaiting[1]
            /\ alive(st.player_units[i])
            /\ st.player_units[i].ap = TURN_THRESHOLD

\* C35: under any interleaving of advance and player-action calls, a state in phase
\* AWAIT_PLAYER awaits a living player unit whose ap is 100, and an advance called in
\* that phase moves neither the tick nor any unit: no enemy acts while the player's
\* action is pending.
C35_AwaitedStaysPending ==
    /\ state.phase = PHASE_AWAIT_PLAYER => AwaitedIsReady(state)
    /\ (call.op = "advance" /\ call.pre.phase = PHASE_AWAIT_PLAYER) =>
            /\ state.tick = call.pre.tick
            /\ call.trace = <<>>
            /\ state.player_units = call.pre.player_units
            /\ state.enemy_units = call.pre.enemy_units

\* C36: death is permanent in the step engine: no advance and no player action raises
\* the hp of a unit, so a unit at hp 0 before a call is at hp 0 after it.
C36_HpNeverRises ==
    call.op \in {"advance", "act"} =>
        \A i \in Indices(AllUnits(state)) :
            /\ AllUnits(state)[i].hp <= AllUnits(call.pre)[i].hp
            /\ AllUnits(call.pre)[i].hp = 0 => AllUnits(state)[i].hp = 0

\* a call that resolved attacks on a side of which a unit was already dead, and that
\* brought another unit to hp 0
C36_Witness ==
    /\ call.op \in {"advance", "act"}
    /\ call.trace # <<>>
    /\ \E i, j \in Indices(AllUnits(state)) :
            /\ i # j
            /\ AllUnits(call.pre)[i].hp = 0
            /\ AllUnits(call.pre)[j].hp > 0
            /\ AllUnits(state)[j].hp = 0

\* units u and v agree on every persisted field outside changed
SameBut(u, v, changed) == \A f \in KeptFields \ changed : u[f] = v[f]

\* one resolved attack: from the choice of the attacker to the return of _deal_damage
\* the attacker changed in ap only and the target in hp only (a unit that struck itself,
\* in both), and _deal_damage left every other unit as it was
AttackFrame(e) ==
    /\ SameBut(e.acting, e.attacker_after, {"ap"} \cup (IF e.source = e.target THEN {"hp"} ELSE {}))
    /\ SameBut(e.before, e.after, {"hp"})
    /\ \A side \in Sides :
            /\ Len(e.units_after[side]) = Len(e.units[side])
            /\ \A i \in Indices(e.units[side]) :
                    SameBut(e.units[side][i], e.units_after[side][i],
                            IF e.target = [side |-> side, idx |-> i] THEN {"hp"} ELSE {})

\* C37: no advance and no player action changes a unit's id, side, name, level, row,
\* slot, stats or max_hp, the number or order of the units of a side, seed or
\* tick_limit; and a single resolved attack changes, of the persisted fields of the
\* units, only the target's hp and the attacker's ap.
C37_Frame ==
    call.op \in {"advance", "act"} =>
        /\ Len(state.player_units) = Len(call.pre.player_units)
        /\ Len(state.enemy_units) = Len(call.pre.enemy_units)
        /\ \A i \in Indices(AllUnits(state)) :
                SameBut(AllUnits(call.pre)[i], AllUnits(state)[i], {"hp", "ap"})
        /\ state.seed = call.pre.seed
        /\ state.tick_limit = call.pre.tick_limit
        /\ \A k \in Indices(call.trace) : AttackFrame(call.trace[k])

\* a call in a battle of three units or more in which a unit lost hp and a unit's ap
\* changed
C37_Witness ==
    /\ call.op \in {"advance", "act"}
    /\ Len(AllUnits(state)) >= 3
    /\ call.trace # <<>>
    /\ \E i \in Indices(AllUnits(state)) : AllUnits(state)[i].hp < AllUnits(call.pre)[i].hp
    /\ \E i \in Indices(AllUnits(state)) : AllUnits(state)[i].ap # AllUnits(call.pre)[i].ap

\* a side of the display snapshot lists the units of the state: each unit once, under
\* its own row, the rows ordered by slot, and no unit besides
ListsUnits(fmt, units) ==
    /\ \A i \in Indices(units) :
            /\ units[i].row \in DOMAIN fmt
            /\ \E k \in Indices(fmt[units[i].row]) : fmt[units[i].row][k] = units[i]
    /\ Len(fmt.front) + Len(fmt.back) = Len(units)
    /\ \A row \in DOMAIN fmt :
            /\ \A k \in Indices(fmt[row]) : fmt[row][k].row = row
            /\ \A k \in 1..(Len(fmt[row]) - 1) : fmt[row][k].slot <= fmt[row][k + 1].slot

\* C38: the display snapshot lists every unit of each side exactly once, under its own
\* row and ordered by slot: the units of snapshot.player (snapshot.enemy) over all rows
\* are the state's player (enemy) units, units of the mid row included.
C38_SnapshotListsUnits ==
    call.op = "snapshot" =>
        /\ ListsUnits(call.result.player, state.player_units)
        /\ ListsUnits(call.result.enemy, state.enemy_units)

\* the snapshot lists every unit outside the mid row once, under its own row
ListedUnlessMid ==
    (call.op = "snapshot" /\ \A i \in Indices(AllUnits(state)) : AllUnits(state)[i].row # "mid") =>
        /\ ListsUnits(call.result.player, state.player_units)
        /\ ListsUnits(call.result.enemy, state.enemy_units)

\* the stored balance is not negative and every coin it lost paid for a hero
Balanced ==
    /\ db.coins >= 0
    /\ db.heroes * SummonCost = db.start_coins - db.coins

\* C39: under any interleaving of two or more summon_random_hero calls on one profile,
\* coins never becomes negative and the number of heroes created times cost equals the
\* total decrease of the stored coin balance.
C39_NoDoubleSpend == Balanced

\* on a database that refuses the second writer, the balance stays right
BalancedWhenLocking == db.backend = "locking" => Balanced

====
